---- MODULE Spec2Model ----
(***************************************************************************)
(* Lutrii: the recurring-billing program (lutrii-recurring) and the        *)
(* merchant registry (lutrii-merchant-registry) as one state machine.      *)
(*                                                                         *)
(* Every instruction handler is an operator from the accounts it is given  *)
(* to a result record [err, ...accounts after the handler]; the action of  *)
(* the same name commits the accounts only when err = "Ok", which is the   *)
(* runtime's rule for a failed instruction (the whole transaction is       *)
(* rolled back).                                                           *)
(***************************************************************************)
EXTENDS Integers, Sequences, FiniteSets, TLC

\* ------------------------------------------------------------------------
\* Program constants
\* ------------------------------------------------------------------------
SECONDS_PER_DAY == 86400
BASIS_POINTS_DIVISOR == 10000
MIN_FREQUENCY_SECONDS == 3600
MAX_FREQUENCY_SECONDS == 31536000
MAX_MERCHANT_NAME_LEN == 32
MAX_FEE_BASIS_POINTS == 500
MIN_FEE_BASIS_POINTS == 1
INITIAL_MIN_FEE == 10000
INITIAL_MAX_FEE == 500000
MAX_REVIEW_COMMENT_LEN == 256
PREMIUM_BADGE_DURATION_DAYS == 30
PREMIUM_BADGE_PRICE == 50000000
MIN_TOTAL_PAID_FOR_REVIEW == 1000000
MIN_PAYMENTS_FOR_REVIEW == 3
MIN_SUBSCRIPTION_AGE_SECONDS == 7 * SECONDS_PER_DAY
I32_MAX == 2147483647
I32_MIN == (-2147483647) - 1

\* ------------------------------------------------------------------------
\* Bounds of the model
\* ------------------------------------------------------------------------
\* Largest value of the unsigned 64-bit and 32-bit fields.  The widths are
\* scaled into the integer range of the checker; a checked addition fails
\* with Overflow exactly when the sum would pass the bound.  The 32-bit bound
\* is the smaller one, so that payment_count can stand at its bound while
\* total_paid = payment_count * amount is within the 64-bit bound.
U64_MAX == 2000000000
U32_MAX == 50000
\* Clock value at which the platform is deployed.
StartTime == 1700000000
\* The clock stops advancing MaxElapsed seconds after StartTime.
MaxElapsed == 86400
\* Tokens each payer's token account holds at the start.
InitBalance == 3000000

Users == {"u1", "u2"}
MerchantOwners == {"m1"}
Admin == "admin"
Outsider == "mallory"
FeeAccount == "fee"
RegistryFeeAccount == "registry_fee"
Signers == Users \cup MerchantOwners \cup {Admin, Outsider}
TokenAccounts == Users \cup MerchantOwners \cup {FeeAccount, RegistryFeeAccount}
SubKeys == Users \X MerchantOwners
NoDelegate == <<>>

Max(a, b) == IF a >= b THEN a ELSE b
Min(a, b) == IF a <= b THEN a ELSE b
AbsDiff(a, b) == IF a >= b THEN a - b ELSE b - a

\* checked_add on an unsigned field of the given width: the sum, or -1 when
\* the sum does not fit (the handler then returns Overflow).
CheckedAdd(a, b, max) == IF a > max - b THEN -1 ELSE a + b
\* saturating_sub on an unsigned field.
SaturatingSubU(a, b) == IF a < b THEN 0 ELSE a - b

\* ------------------------------------------------------------------------
\* State
\* ------------------------------------------------------------------------
VARIABLES
    now,        \* Clock::get()?.unix_timestamp
    platform,   \* the PlatformState account (seeds = [b"platform"])
    subs,       \* the Subscription accounts, by (user, merchant) seeds
    token,      \* the token ledger: balances and delegations
    registry,   \* the RegistryState account (seeds = [b"registry"])
    merchants,  \* the Merchant accounts, by owner
    reviews,    \* the Review accounts, by (merchant, reviewer) seeds
    last,       \* the instruction executed last and its result
    calc        \* the last call of calculate_fee: arguments and result

vars == <<now, platform, subs, token, registry, merchants, reviews, last, calc>>

NoPlatform ==
    [exists |-> FALSE, authority |-> Admin, daily_volume_limit |-> 0,
     total_volume_24h |-> 0, last_volume_reset |-> 0, failed_tx_count |-> 0,
     emergency_pause |-> FALSE, fee_basis_points |-> 0, min_fee |-> 0,
     max_fee |-> 0, total_subscriptions |-> 0, total_transactions |-> 0]

NoSub ==
    [exists |-> FALSE, user |-> "", merchant |-> "", amount |-> 0,
     original_amount |-> 0, frequency_seconds |-> 0, last_payment |-> 0,
     next_payment |-> 0, total_paid |-> 0, payment_count |-> 0,
     is_active |-> FALSE, is_paused |-> FALSE, max_per_transaction |-> 0,
     lifetime_cap |-> 0, merchant_name_len |-> 0, created_at |-> 0]

InitToken ==
    [balance |-> [a \in TokenAccounts |->
                    IF a \in Users THEN InitBalance
                    ELSE IF a \in MerchantOwners THEN PREMIUM_BADGE_PRICE
                    ELSE 0],
     delegate |-> [a \in TokenAccounts |-> NoDelegate],
     delegated_amount |-> [a \in TokenAccounts |-> 0]]

\* ------------------------------------------------------------------------
\* The token program (the delegated-authorization adapter)
\* ------------------------------------------------------------------------
\* approve_checked: the owner makes `delegate` the one delegate of the
\* account, for `amount`; a previous delegation is replaced.
TokenApprove(tok, account, delegate, amount) ==
    [tok EXCEPT !.delegate[account] = delegate,
                !.delegated_amount[account] = amount]

\* revoke: the owner removes the delegation of the account.
TokenRevoke(tok, account) ==
    [tok EXCEPT !.delegate[account] = NoDelegate,
                !.delegated_amount[account] = 0]

\* transfer_checked signed by the owner of the source account.
TokenTransferByOwner(tok, from, to, amount) ==
    IF tok.balance[from] < amount
    THEN [err |-> "TokenInsufficientFunds", tok |-> tok]
    ELSE [err |-> "Ok",
          tok |-> [tok EXCEPT !.balance =
                      [a \in TokenAccounts |->
                          (tok.balance[a]
                             - (IF a = from THEN amount ELSE 0))
                             + (IF a = to THEN amount ELSE 0)]]]

\* transfer_checked signed by a delegate: the delegate must be the account's
\* current delegate and the amount within balance and outstanding
\* delegation; the delegation shrinks by the amount and ends at zero.
TokenTransferByDelegate(tok, from, to, authority, amount) ==
    IF tok.balance[from] < amount
    THEN [err |-> "TokenInsufficientFunds", tok |-> tok]
    ELSE IF tok.delegate[from] # authority
    THEN [err |-> "TokenOwnerMismatch", tok |-> tok]
    ELSE IF tok.delegated_amount[from] < amount
    THEN [err |-> "TokenInsufficientFunds", tok |-> tok]
    ELSE LET left == tok.delegated_amount[from] - amount
         IN [err |-> "Ok",
             tok |-> [balance |->
                        [a \in TokenAccounts |->
                            (tok.balance[a]
                               - (IF a = from THEN amount ELSE 0))
                               + (IF a = to THEN amount ELSE 0)],
                      delegate |->
                        [tok.delegate EXCEPT ![from] =
                            IF left = 0 THEN NoDelegate ELSE authority],
                      delegated_amount |->
                        [tok.delegated_amount EXCEPT ![from] = left]]]

\* ------------------------------------------------------------------------
\* lutrii-recurring: helpers
\* ------------------------------------------------------------------------
\* Platform fee: amount * basis_points / 10000 in 128 bits, narrowed back to
\* 64 bits, then raised to min_fee and lowered to max_fee (in that order).
\* Mutant: the fee is raised to min_fee but not lowered to max_fee.
calculate_fee_Uncapped(amount, basis_points, min_fee, max_fee) ==
    LET fee == (amount * basis_points) \div BASIS_POINTS_DIVISOR
    IN IF fee > U64_MAX
       THEN [err |-> "Overflow", fee |-> 0]
       ELSE [err |-> "Ok", fee |-> Max(fee, min_fee)]

calculate_fee(amount, basis_points, min_fee, max_fee) ==
    LET fee == (amount * basis_points) \div BASIS_POINTS_DIVISOR
    IN IF fee > U64_MAX
       THEN [err |-> "Overflow", fee |-> 0]
       ELSE [err |-> "Ok", fee |-> Min(Max(fee, min_fee), max_fee)]

\* Mutant: the window is not yet over at the instant it ends.
VolumeWindowReset_Strict(plat, t) ==
    IF t > plat.last_volume_reset + SECONDS_PER_DAY
    THEN [plat EXCEPT !.total_volume_24h = 0, !.last_volume_reset = t]
    ELSE plat

\* "Auto-reset daily volume if 24h passed", the first statement of
\* execute_payment.
VolumeWindowReset(plat, t) ==
    IF t >= plat.last_volume_reset + SECONDS_PER_DAY
    THEN [plat EXCEPT !.total_volume_24h = 0, !.last_volume_reset = t]
    ELSE plat

\* Mutant: the due-date check is dropped.
PaymentDue_Always(sub, t) == TRUE

PaymentDue(sub, t) == t >= sub.next_payment

WithinLifetimeCap(sub, new_total) == new_total <= sub.lifetime_cap

WithinVelocity(plat, new_volume) == new_volume <= plat.daily_volume_limit

\* Mutant: the variance is allowed up to a tenth of the current amount.
WithinVariance_OfAmount(sub) ==
    sub.payment_count > 0 =>
        AbsDiff(sub.amount, sub.original_amount) <= sub.amount \div 10

\* "Price variance protection (10% max change from original)".
WithinVariance(sub) ==
    sub.payment_count > 0 =>
        AbsDiff(sub.amount, sub.original_amount) <= sub.original_amount \div 10

ValidFrequency(frequency_seconds) ==
    IF frequency_seconds < MIN_FREQUENCY_SECONDS THEN "FrequencyTooShort"
    ELSE IF frequency_seconds > MAX_FREQUENCY_SECONDS THEN "FrequencyTooLong"
    ELSE "Ok"

ValidMerchantName(len) == len # 0 /\ len <= MAX_MERCHANT_NAME_LEN

\* ------------------------------------------------------------------------
\* lutrii-recurring: instruction handlers
\* ------------------------------------------------------------------------
initialize_platform(plat, caller, daily_volume_limit, fee_basis_points, t) ==
    IF plat.exists THEN [err |-> "AccountAlreadyInUse", plat |-> plat]
    ELSE IF fee_basis_points < MIN_FEE_BASIS_POINTS
    THEN [err |-> "FeeTooLow", plat |-> plat]
    ELSE IF fee_basis_points > MAX_FEE_BASIS_POINTS
    THEN [err |-> "FeeTooHigh", plat |-> plat]
    ELSE [err |-> "Ok",
          plat |-> [exists |-> TRUE, authority |-> caller,
                    daily_volume_limit |-> daily_volume_limit,
                    total_volume_24h |-> 0, last_volume_reset |-> t,
                    failed_tx_count |-> 0, emergency_pause |-> FALSE,
                    fee_basis_points |-> fee_basis_points,
                    min_fee |-> INITIAL_MIN_FEE, max_fee |-> INITIAL_MAX_FEE,
                    total_subscriptions |-> 0, total_transactions |-> 0]]

\* The validations of create_subscription, in the order of the code.
CreateChecks(plat, amount, frequency_seconds, max_per_transaction, lifetime_cap, name_len) ==
    IF plat.emergency_pause THEN "SystemPaused"
    ELSE IF ValidFrequency(frequency_seconds) # "Ok"
    THEN ValidFrequency(frequency_seconds)
    ELSE IF ~ValidMerchantName(name_len) THEN "InvalidMerchantName"
    ELSE IF ~(amount > 0) THEN "AmountTooLow"
    ELSE IF ~(amount <= max_per_transaction) THEN "ExceedsTransactionCap"
    ELSE IF ~(amount <= lifetime_cap) THEN "ExceedsLifetimeCap"
    ELSE "Ok"

create_subscription(sub, plat, tok, user, merchant, amount, frequency_seconds, max_per_transaction, lifetime_cap, name_len, t) ==
    LET fail(e) == [err |-> e, sub |-> sub, plat |-> plat, tok |-> tok]
        chk == CreateChecks(plat, amount, frequency_seconds,
                            max_per_transaction, lifetime_cap, name_len)
        subs_total == CheckedAdd(plat.total_subscriptions, 1, U64_MAX)
    IN IF sub.exists THEN fail("AccountAlreadyInUse")
       ELSE IF ~plat.exists THEN fail("AccountNotInitialized")
       ELSE IF chk # "Ok" THEN fail(chk)
       ELSE IF subs_total = -1 THEN fail("Overflow")
       ELSE [err |-> "Ok",
             sub |-> [exists |-> TRUE, user |-> user, merchant |-> merchant,
                      amount |-> amount, original_amount |-> amount,
                      frequency_seconds |-> frequency_seconds,
                      last_payment |-> 0,
                      next_payment |-> t + frequency_seconds,
                      total_paid |-> 0, payment_count |-> 0,
                      is_active |-> TRUE, is_paused |-> FALSE,
                      max_per_transaction |-> max_per_transaction,
                      lifetime_cap |-> lifetime_cap,
                      merchant_name_len |-> name_len, created_at |-> t],
             plat |-> [plat EXCEPT !.total_subscriptions = subs_total],
             tok |-> TokenApprove(tok, user, <<user, merchant>>, lifetime_cap)]

\* Mutant: the velocity limit is checked before the lifetime cap.
ExecuteChecks_VelocityFirst(sub, plat, t) ==
    LET new_total == CheckedAdd(sub.total_paid, sub.amount, U64_MAX)
        new_volume == CheckedAdd(plat.total_volume_24h, sub.amount, U64_MAX)
    IN IF plat.emergency_pause THEN "SystemPaused"
       ELSE IF ~sub.is_active THEN "SubscriptionInactive"
       ELSE IF sub.is_paused THEN "SubscriptionPaused"
       ELSE IF ~PaymentDue(sub, t) THEN "PaymentNotDue"
       ELSE IF new_volume = -1 THEN "Overflow"
       ELSE IF ~WithinVelocity(plat, new_volume) THEN "VelocityExceeded"
       ELSE IF new_total = -1 THEN "Overflow"
       ELSE IF ~WithinLifetimeCap(sub, new_total) THEN "ExceedsLifetimeCap"
       ELSE IF ~WithinVariance(sub) THEN "PriceVarianceExceeded"
       ELSE "Ok"

\* Mutant: the emergency pause is not checked.
ExecuteChecks_IgnoringPause(sub, plat, t) ==
    LET new_total == CheckedAdd(sub.total_paid, sub.amount, U64_MAX)
        new_volume == CheckedAdd(plat.total_volume_24h, sub.amount, U64_MAX)
    IN IF ~sub.is_active THEN "SubscriptionInactive"
       ELSE IF sub.is_paused THEN "SubscriptionPaused"
       ELSE IF ~PaymentDue(sub, t) THEN "PaymentNotDue"
       ELSE IF new_total = -1 THEN "Overflow"
       ELSE IF ~WithinLifetimeCap(sub, new_total) THEN "ExceedsLifetimeCap"
       ELSE IF new_volume = -1 THEN "Overflow"
       ELSE IF ~WithinVelocity(plat, new_volume) THEN "VelocityExceeded"
       ELSE IF ~WithinVariance(sub) THEN "PriceVarianceExceeded"
       ELSE "Ok"

\* The "security checks" of execute_payment up to the price-variance check,
\* on the platform state after the volume-window reset.
ExecuteChecks(sub, plat, t) ==
    LET new_total == CheckedAdd(sub.total_paid, sub.amount, U64_MAX)
        new_volume == CheckedAdd(plat.total_volume_24h, sub.amount, U64_MAX)
    IN IF plat.emergency_pause THEN "SystemPaused"
       ELSE IF ~sub.is_active THEN "SubscriptionInactive"
       ELSE IF sub.is_paused THEN "SubscriptionPaused"
       ELSE IF ~PaymentDue(sub, t) THEN "PaymentNotDue"
       ELSE IF new_total = -1 THEN "Overflow"
       ELSE IF ~WithinLifetimeCap(sub, new_total) THEN "ExceedsLifetimeCap"
       ELSE IF new_volume = -1 THEN "Overflow"
       ELSE IF ~WithinVelocity(plat, new_volume) THEN "VelocityExceeded"
       ELSE IF ~WithinVariance(sub) THEN "PriceVarianceExceeded"
       ELSE "Ok"

\* The state updates at the end of execute_payment.
\* Mutant: a payment is added to total_paid without being counted.
ExecuteUpdateSub_NotCounting(sub, t) ==
    [sub EXCEPT !.last_payment = t,
                !.next_payment = t + sub.frequency_seconds,
                !.total_paid = sub.total_paid + sub.amount]

\* Mutant: the schedule is not advanced by a payment.
ExecuteUpdateSub_KeepingSchedule(sub, t) ==
    [sub EXCEPT !.last_payment = t,
                !.total_paid = sub.total_paid + sub.amount,
                !.payment_count = sub.payment_count + 1]

ExecuteUpdateSub(sub, t) ==
    [sub EXCEPT !.last_payment = t,
                !.next_payment = t + sub.frequency_seconds,
                !.total_paid = sub.total_paid + sub.amount,
                !.payment_count = sub.payment_count + 1]

ExecuteUpdatePlatform(plat, amount) ==
    [plat EXCEPT !.total_volume_24h = plat.total_volume_24h + amount,
                 !.total_transactions = plat.total_transactions + 1]

\* The result of a failing call holds the accounts as the handler has
\* written them by the point of the error: the platform after the
\* volume-window reset, the ledger after the transfers made so far, and for
\* an Overflow of payment_count or total_transactions the fields assigned
\* before it.
execute_payment(sub, plat, tok, fee_account, t) ==
    LET plat1 == VolumeWindowReset(plat, t)
        fail(e) == [err |-> e, sub |-> sub, plat |-> plat1, tok |-> tok]
        chk == ExecuteChecks(sub, plat1, t)
        f == calculate_fee(sub.amount, plat1.fee_basis_points,
                           plat1.min_fee, plat1.max_fee)
        merchant_amount == sub.amount - f.fee
        key == <<sub.user, sub.merchant>>
        t1 == TokenTransferByDelegate(tok, sub.user, sub.merchant, key,
                                      merchant_amount)
        t2 == IF f.fee > 0
              THEN TokenTransferByDelegate(t1.tok, sub.user, fee_account, key,
                                           f.fee)
              ELSE [err |-> "Ok", tok |-> t1.tok]
    IN IF ~sub.exists \/ ~plat.exists
       THEN [err |-> "AccountNotInitialized", sub |-> sub, plat |-> plat,
             tok |-> tok]
       ELSE IF chk # "Ok" THEN fail(chk)
       ELSE IF f.err # "Ok" THEN fail(f.err)
       ELSE IF merchant_amount < 0 THEN fail("InsufficientAmount")
       ELSE IF t1.err # "Ok" THEN fail(t1.err)
       ELSE IF t2.err # "Ok"
       THEN [err |-> t2.err, sub |-> sub, plat |-> plat1, tok |-> t1.tok]
       ELSE IF CheckedAdd(sub.payment_count, 1, U32_MAX) = -1
       THEN [err |-> "Overflow",
             sub |-> [sub EXCEPT !.last_payment = t,
                                 !.next_payment = t + sub.frequency_seconds,
                                 !.total_paid = sub.total_paid + sub.amount],
             plat |-> plat1, tok |-> t2.tok]
       ELSE IF CheckedAdd(plat1.total_transactions, 1, U64_MAX) = -1
       THEN [err |-> "Overflow", sub |-> ExecuteUpdateSub(sub, t),
             plat |-> [plat1 EXCEPT !.total_volume_24h =
                          plat1.total_volume_24h + sub.amount],
             tok |-> t2.tok]
       ELSE [err |-> "Ok", sub |-> ExecuteUpdateSub(sub, t),
             plat |-> ExecuteUpdatePlatform(plat1, sub.amount),
             tok |-> t2.tok]

\* Mutant: the signer is not compared with the subscription's user.
OwnerCheck_AnySigner(sub, caller) ==
    IF ~sub.exists THEN "AccountNotInitialized" ELSE "Ok"

\* Account validation of ModifySubscription, CancelSubscription,
\* CloseSubscription and UpdateLimits: the account exists and the signer is
\* the subscription's user (has_one = user).
OwnerCheck(sub, caller) ==
    IF ~sub.exists THEN "AccountNotInitialized"
    ELSE IF sub.user # caller THEN "UnauthorizedUser"
    ELSE "Ok"

\* Mutant: pausing pushes the schedule by one interval.
pause_subscription_Rescheduling(sub, caller) ==
    IF OwnerCheck(sub, caller) # "Ok"
    THEN [err |-> OwnerCheck(sub, caller), sub |-> sub]
    ELSE IF ~sub.is_active THEN [err |-> "SubscriptionInactive", sub |-> sub]
    ELSE IF sub.is_paused THEN [err |-> "AlreadyPaused", sub |-> sub]
    ELSE [err |-> "Ok",
          sub |-> [sub EXCEPT !.is_paused = TRUE,
                              !.next_payment = @ + sub.frequency_seconds]]

pause_subscription(sub, caller) ==
    IF OwnerCheck(sub, caller) # "Ok"
    THEN [err |-> OwnerCheck(sub, caller), sub |-> sub]
    ELSE IF ~sub.is_active THEN [err |-> "SubscriptionInactive", sub |-> sub]
    ELSE IF sub.is_paused THEN [err |-> "AlreadyPaused", sub |-> sub]
    ELSE [err |-> "Ok", sub |-> [sub EXCEPT !.is_paused = TRUE]]

\* Mutant: a resumed subscription is due at once.
resume_subscription_DueAtOnce(sub, caller, t) ==
    IF OwnerCheck(sub, caller) # "Ok"
    THEN [err |-> OwnerCheck(sub, caller), sub |-> sub]
    ELSE IF ~sub.is_active THEN [err |-> "SubscriptionInactive", sub |-> sub]
    ELSE IF ~sub.is_paused THEN [err |-> "NotPaused", sub |-> sub]
    ELSE [err |-> "Ok",
          sub |-> [sub EXCEPT !.is_paused = FALSE, !.next_payment = t]]

resume_subscription(sub, caller, t) ==
    IF OwnerCheck(sub, caller) # "Ok"
    THEN [err |-> OwnerCheck(sub, caller), sub |-> sub]
    ELSE IF ~sub.is_active THEN [err |-> "SubscriptionInactive", sub |-> sub]
    ELSE IF ~sub.is_paused THEN [err |-> "NotPaused", sub |-> sub]
    ELSE [err |-> "Ok",
          sub |-> [sub EXCEPT !.is_paused = FALSE,
                              !.next_payment = t + sub.frequency_seconds]]

\* Mutant: total_subscriptions is not decremented.
cancel_subscription_KeepingCount(sub, plat, tok, caller) ==
    LET fail(e) == [err |-> e, sub |-> sub, plat |-> plat, tok |-> tok]
    IN IF OwnerCheck(sub, caller) # "Ok" THEN fail(OwnerCheck(sub, caller))
       ELSE IF ~sub.is_active THEN fail("SubscriptionInactive")
       ELSE [err |-> "Ok",
             sub |-> [sub EXCEPT !.is_active = FALSE, !.is_paused = FALSE],
             plat |-> plat,
             tok |-> TokenRevoke(tok, sub.user)]

\* Mutant: the delegation is not revoked.
cancel_subscription_KeepingDelegation(sub, plat, tok, caller) ==
    LET fail(e) == [err |-> e, sub |-> sub, plat |-> plat, tok |-> tok]
    IN IF OwnerCheck(sub, caller) # "Ok" THEN fail(OwnerCheck(sub, caller))
       ELSE IF ~sub.is_active THEN fail("SubscriptionInactive")
       ELSE [err |-> "Ok",
             sub |-> [sub EXCEPT !.is_active = FALSE, !.is_paused = FALSE],
             plat |-> [plat EXCEPT !.total_subscriptions =
                          SaturatingSubU(plat.total_subscriptions, 1)],
             tok |-> tok]

cancel_subscription(sub, plat, tok, caller) ==
    LET fail(e) == [err |-> e, sub |-> sub, plat |-> plat, tok |-> tok]
    IN IF OwnerCheck(sub, caller) # "Ok" THEN fail(OwnerCheck(sub, caller))
       ELSE IF ~sub.is_active THEN fail("SubscriptionInactive")
       ELSE [err |-> "Ok",
             sub |-> [sub EXCEPT !.is_active = FALSE, !.is_paused = FALSE],
             plat |-> [plat EXCEPT !.total_subscriptions =
                          SaturatingSubU(plat.total_subscriptions, 1)],
             tok |-> TokenRevoke(tok, sub.user)]

\* Mutant: a subscription is closed whether active or not.
close_subscription_AnyState(sub, caller) ==
    IF OwnerCheck(sub, caller) # "Ok"
    THEN [err |-> OwnerCheck(sub, caller), sub |-> sub]
    ELSE [err |-> "Ok", sub |-> NoSub]

\* close = user: on success the account is reclaimed.
close_subscription(sub, caller) ==
    IF OwnerCheck(sub, caller) # "Ok"
    THEN [err |-> OwnerCheck(sub, caller), sub |-> sub]
    ELSE IF sub.is_active THEN [err |-> "SubscriptionStillActive", sub |-> sub]
    ELSE [err |-> "Ok", sub |-> NoSub]

\* Mutant: the new per-transaction cap is not compared with the amount.
UpdateMaxPerTransaction_Unchecked(sub, max_tx) ==
    [err |-> "Ok", sub |-> [sub EXCEPT !.max_per_transaction = max_tx]]

\* new_max_per_transaction and new_lifetime_cap are Option<u64>: -1 is None.
UpdateMaxPerTransaction(sub, max_tx) ==
    IF ~(sub.amount <= max_tx)
    THEN [err |-> "ExceedsTransactionCap", sub |-> sub]
    ELSE [err |-> "Ok", sub |-> [sub EXCEPT !.max_per_transaction = max_tx]]

\* Mutant: the new lifetime cap is not compared with total_paid.
UpdateLifetimeCap_Unchecked(sub, tok, lifetime) ==
    [err |-> "Ok",
     sub |-> [sub EXCEPT !.lifetime_cap = lifetime],
     tok |-> IF lifetime > sub.lifetime_cap
             THEN TokenApprove(tok, sub.user, <<sub.user, sub.merchant>>,
                               lifetime)
             ELSE tok]

UpdateLifetimeCap(sub, tok, lifetime) ==
    IF ~(sub.total_paid <= lifetime)
    THEN [err |-> "ExceedsLifetimeCap", sub |-> sub, tok |-> tok]
    ELSE [err |-> "Ok",
          sub |-> [sub EXCEPT !.lifetime_cap = lifetime],
          tok |-> IF lifetime > sub.lifetime_cap
                  THEN TokenApprove(tok, sub.user,
                                    <<sub.user, sub.merchant>>, lifetime)
                  ELSE tok]

\* A failing result holds the account as the handler left it: the lifetime
\* check fails after max_per_transaction has been written.
update_limits(sub, tok, caller, new_max_per_transaction, new_lifetime_cap) ==
    LET fail(e) == [err |-> e, sub |-> sub, tok |-> tok]
        r1 == IF new_max_per_transaction # -1
              THEN UpdateMaxPerTransaction(sub, new_max_per_transaction)
              ELSE [err |-> "Ok", sub |-> sub]
        r2 == IF new_lifetime_cap # -1
              THEN UpdateLifetimeCap(r1.sub, tok, new_lifetime_cap)
              ELSE [err |-> "Ok", sub |-> r1.sub, tok |-> tok]
    IN IF OwnerCheck(sub, caller) # "Ok" THEN fail(OwnerCheck(sub, caller))
       ELSE IF ~sub.is_active THEN fail("SubscriptionInactive")
       ELSE IF r1.err # "Ok" THEN fail(r1.err)
       ELSE IF r2.err # "Ok" THEN [err |-> r2.err, sub |-> r1.sub, tok |-> tok]
       ELSE [err |-> "Ok", sub |-> r2.sub, tok |-> r2.tok]

\* Mutant: the signer is not compared with the platform authority.
AdminCheck_AnySigner(plat, caller) ==
    IF ~plat.exists THEN "AccountNotInitialized" ELSE "Ok"

\* Account validation of AdminAction (has_one = authority).
AdminCheck(plat, caller) ==
    IF ~plat.exists THEN "AccountNotInitialized"
    ELSE IF plat.authority # caller THEN "UnauthorizedAdmin"
    ELSE "Ok"

emergency_pause(plat, caller) ==
    IF AdminCheck(plat, caller) # "Ok"
    THEN [err |-> AdminCheck(plat, caller), plat |-> plat]
    ELSE [err |-> "Ok", plat |-> [plat EXCEPT !.emergency_pause = TRUE]]

\* Mutant: the volume counters are kept.
emergency_unpause_KeepingVolume(plat, caller, t) ==
    IF AdminCheck(plat, caller) # "Ok"
    THEN [err |-> AdminCheck(plat, caller), plat |-> plat]
    ELSE [err |-> "Ok", plat |-> [plat EXCEPT !.emergency_pause = FALSE]]

emergency_unpause(plat, caller, t) ==
    IF AdminCheck(plat, caller) # "Ok"
    THEN [err |-> AdminCheck(plat, caller), plat |-> plat]
    ELSE [err |-> "Ok",
          plat |-> [plat EXCEPT !.emergency_pause = FALSE,
                                !.total_volume_24h = 0,
                                !.last_volume_reset = t,
                                !.failed_tx_count = 0]]

\* ------------------------------------------------------------------------
\* lutrii-merchant-registry: state and helpers
\* ------------------------------------------------------------------------
Tiers == {"Unverified", "Verified", "Community", "Suspended"}

RecurringProgram == "lutrii_recurring"
RegistryProgram == "lutrii_merchant_registry"
OtherProgram == "other_program"
Programs == {RecurringProgram, RegistryProgram, OtherProgram}

NoRegistry ==
    [exists |-> FALSE, authority |-> Admin, total_merchants |-> 0,
     verified_merchants |-> 0, premium_badge_price |-> 0]

NoMerchant ==
    [exists |-> FALSE, owner |-> "", verification_tier |-> "Unverified",
     community_score |-> 0, total_transactions |-> 0, total_volume |-> 0,
     failed_transactions |-> 0, premium_badge_active |-> FALSE,
     premium_badge_expires |-> 0]

NoReview ==
    [exists |-> FALSE, merchant |-> "", reviewer |-> "", rating |-> 0,
     comment_len |-> 0, timestamp |-> 0]

\* checked_add and saturating_sub on the signed 32-bit community_score;
\* CheckedAddI32 returns ok = FALSE where checked_add returns None.
CheckedAddI32(a, b) ==
    IF a > I32_MAX - b THEN [ok |-> FALSE, v |-> a] ELSE [ok |-> TRUE, v |-> a + b]

SaturatingSubI32(a, b) == IF a < I32_MIN + b THEN I32_MIN ELSE a - b

\* The caller validation of record_transaction, by the instructions sysvar:
\* current_index is the index of the top-level instruction being executed
\* and prev_program the program id of the instruction at current_index - 1.
CpiValidation(current_index, prev_program) ==
    IF ~(current_index > 0) THEN "MustBeCalledViaCpi"
    ELSE IF prev_program # RecurringProgram THEN "UnauthorizedCpiCaller"
    ELSE "Ok"

\* Mutant: the badge is still valid at the instant it expires.
ExpireBadge_Strict(m, t) ==
    IF m.premium_badge_active /\ t > m.premium_badge_expires
    THEN [m EXCEPT !.premium_badge_active = FALSE]
    ELSE m

\* "Auto-deactivate expired premium badges".
ExpireBadge(m, t) ==
    IF m.premium_badge_active /\ t >= m.premium_badge_expires
    THEN [m EXCEPT !.premium_badge_active = FALSE]
    ELSE m

\* Mutant: the thresholds of the promotion are strict.
AutoPromote_Strict(m) ==
    IF /\ m.verification_tier = "Verified"
       /\ m.total_transactions > 100
       /\ m.community_score > 1000
       /\ m.failed_transactions < 5
    THEN [m EXCEPT !.verification_tier = "Community"]
    ELSE m

\* "Auto-upgrade to Community tier if metrics are excellent".
AutoPromote(m) ==
    IF /\ m.verification_tier = "Verified"
       /\ m.total_transactions >= 100
       /\ m.community_score >= 1000
       /\ m.failed_transactions < 5
    THEN [m EXCEPT !.verification_tier = "Community"]
    ELSE m

\* Mutant: the suspension applies from a score of -100.
AutoSuspend_AtThreshold(m) ==
    IF m.community_score <= -100
    THEN [m EXCEPT !.verification_tier = "Suspended",
                   !.premium_badge_active = FALSE]
    ELSE m

\* "Auto-suspend if score is critically low".
AutoSuspend(m) ==
    IF m.community_score < -100
    THEN [m EXCEPT !.verification_tier = "Suspended",
                   !.premium_badge_active = FALSE]
    ELSE m

\* The score delta of a review, by rating.
ScoreChange(rating) ==
    CASE rating = 5 -> 20
      [] rating = 4 -> 10
      [] rating = 3 -> 0
      [] rating = 2 -> -15
      [] rating = 1 -> -30
      [] OTHER -> 0

\* ------------------------------------------------------------------------
\* lutrii-merchant-registry: instruction handlers
\* ------------------------------------------------------------------------
initialize_registry(reg, caller) ==
    IF reg.exists THEN [err |-> "AccountAlreadyInUse", reg |-> reg]
    ELSE [err |-> "Ok",
          reg |-> [exists |-> TRUE, authority |-> caller,
                   total_merchants |-> 0, verified_merchants |-> 0,
                   premium_badge_price |-> PREMIUM_BADGE_PRICE]]

apply_for_verification(m, reg, owner) ==
    LET total == CheckedAdd(reg.total_merchants, 1, U64_MAX)
    IN IF m.exists THEN [err |-> "AccountAlreadyInUse", m |-> m, reg |-> reg]
       ELSE IF ~reg.exists
       THEN [err |-> "AccountNotInitialized", m |-> m, reg |-> reg]
       ELSE IF total = -1 THEN [err |-> "Overflow", m |-> m, reg |-> reg]
       ELSE [err |-> "Ok",
             m |-> [NoMerchant EXCEPT !.exists = TRUE, !.owner = owner],
             reg |-> [reg EXCEPT !.total_merchants = total]]

\* Account validation of AdminMerchantAction (has_one = authority).
RegistryAdminCheck(m, reg, caller) ==
    IF ~m.exists \/ ~reg.exists THEN "AccountNotInitialized"
    ELSE IF reg.authority # caller THEN "UnauthorizedAdmin"
    ELSE "Ok"

\* Mutant: any tier may be assigned by the administrator.
TierAssignable_Any(tier) == TRUE

\* "Cannot directly approve to Community tier - must be earned".
TierAssignable(tier) == tier # "Community"

approve_merchant(m, reg, caller, tier) ==
    LET fail(e) == [err |-> e, m |-> m, reg |-> reg]
        counted == m.verification_tier = "Unverified" /\ tier = "Verified"
        verified == CheckedAdd(reg.verified_merchants, 1, U64_MAX)
    IN IF RegistryAdminCheck(m, reg, caller) # "Ok"
       THEN fail(RegistryAdminCheck(m, reg, caller))
       ELSE IF ~TierAssignable(tier)
       THEN fail("CannotManuallySetCommunityTier")
       ELSE IF counted /\ verified = -1 THEN fail("Overflow")
       ELSE [err |-> "Ok",
             m |-> [m EXCEPT !.verification_tier = tier],
             reg |-> IF counted
                     THEN [reg EXCEPT !.verified_merchants = verified]
                     ELSE reg]

suspend_merchant(m, reg, caller, reason_len) ==
    IF RegistryAdminCheck(m, reg, caller) # "Ok"
    THEN [err |-> RegistryAdminCheck(m, reg, caller), m |-> m]
    ELSE IF ~(reason_len # 0 /\ reason_len <= 256)
    THEN [err |-> "InvalidSuspensionReason", m |-> m]
    ELSE [err |-> "Ok",
          m |-> [m EXCEPT !.verification_tier = "Suspended",
                          !.premium_badge_active = FALSE]]

\* The merchant account is the one derived from the signer (seeds =
\* [b"merchant", owner]); the price moves from the owner's token account.
subscribe_premium_badge(m, reg, tok, owner, fee_account, t) ==
    LET fail(e) == [err |-> e, m |-> m, tok |-> tok]
        pay == TokenTransferByOwner(tok, owner, fee_account,
                                    reg.premium_badge_price)
    IN IF ~m.exists \/ ~reg.exists THEN fail("AccountNotInitialized")
       ELSE IF ~(m.verification_tier = "Verified"
                 \/ m.verification_tier = "Community")
       THEN fail("MustBeVerifiedFirst")
       ELSE IF pay.err # "Ok" THEN fail(pay.err)
       ELSE [err |-> "Ok",
             m |-> [m EXCEPT !.premium_badge_active = TRUE,
                             !.premium_badge_expires =
                                 t + PREMIUM_BADGE_DURATION_DAYS * SECONDS_PER_DAY],
             tok |-> pay.tok]

\* Mutant: the score decrease of a failed report is a checked subtraction.
RecordStats_CheckedDecrease(m, amount, success) ==
    LET tx == CheckedAdd(m.total_transactions, 1, U64_MAX)
        vol == CheckedAdd(m.total_volume, amount, U64_MAX)
        sc == CheckedAddI32(m.community_score, 10)
        failed == CheckedAdd(m.failed_transactions, 1, U32_MAX)
    IN IF success
       THEN IF tx = -1 \/ vol = -1 \/ ~sc.ok
            THEN [err |-> "Overflow", m |-> m]
            ELSE [err |-> "Ok",
                  m |-> [m EXCEPT !.total_transactions = tx,
                                  !.total_volume = vol,
                                  !.community_score = sc.v]]
       ELSE IF failed = -1 \/ m.community_score < I32_MIN + 25
            THEN [err |-> "Overflow", m |-> m]
            ELSE [err |-> "Ok",
                  m |-> [m EXCEPT !.failed_transactions = failed,
                                  !.community_score = @ - 25]]

\* The counter updates of record_transaction ("Update stats based on
\* success").
RecordStats(m, amount, success) ==
    LET tx == CheckedAdd(m.total_transactions, 1, U64_MAX)
        vol == CheckedAdd(m.total_volume, amount, U64_MAX)
        sc == CheckedAddI32(m.community_score, 10)
        failed == CheckedAdd(m.failed_transactions, 1, U32_MAX)
    IN IF success
       THEN IF tx = -1 \/ vol = -1 \/ ~sc.ok
            THEN [err |-> "Overflow", m |-> m]
            ELSE [err |-> "Ok",
                  m |-> [m EXCEPT !.total_transactions = tx,
                                  !.total_volume = vol,
                                  !.community_score = sc.v]]
       ELSE IF failed = -1
            THEN [err |-> "Overflow", m |-> m]
            ELSE [err |-> "Ok",
                  m |-> [m EXCEPT !.failed_transactions = failed,
                                  !.community_score =
                                      SaturatingSubI32(m.community_score, 25)]]

\* Mutant: the automatic rules read the record before the counters are
\* updated.
record_transaction_RulesBeforeStats(m, current_index, prev_program, amount, success, t) ==
    LET stats == RecordStats(AutoSuspend(AutoPromote(ExpireBadge(m, t))),
                             amount, success)
    IN IF ~m.exists THEN [err |-> "AccountNotInitialized", m |-> m]
       ELSE IF CpiValidation(current_index, prev_program) # "Ok"
       THEN [err |-> CpiValidation(current_index, prev_program), m |-> m]
       ELSE [err |-> stats.err, m |-> IF stats.err = "Ok" THEN stats.m ELSE m]

record_transaction(m, current_index, prev_program, amount, success, t) ==
    LET stats == RecordStats(ExpireBadge(m, t), amount, success)
    IN IF ~m.exists THEN [err |-> "AccountNotInitialized", m |-> m]
       ELSE IF CpiValidation(current_index, prev_program) # "Ok"
       THEN [err |-> CpiValidation(current_index, prev_program), m |-> m]
       ELSE IF stats.err # "Ok" THEN [err |-> stats.err, m |-> m]
       ELSE [err |-> "Ok", m |-> AutoSuspend(AutoPromote(stats.m))]

\* Mutant: the minimum cumulative amount is not required.
ReviewSubscriptionCheck_NoMinimumPaid(sub) ==
    IF ~sub.exists THEN "AccountNotInitialized"
    ELSE IF ~sub.is_active THEN "NoActiveSubscription"
    ELSE IF ~(sub.payment_count >= MIN_PAYMENTS_FOR_REVIEW)
    THEN "InsufficientPaymentHistory"
    ELSE "Ok"

\* The constraints of the SubmitReview accounts on the reviewer's
\* subscription to the merchant.
ReviewSubscriptionCheck(sub) ==
    IF ~sub.exists THEN "AccountNotInitialized"
    ELSE IF ~sub.is_active THEN "NoActiveSubscription"
    ELSE IF ~(sub.payment_count >= MIN_PAYMENTS_FOR_REVIEW)
    THEN "InsufficientPaymentHistory"
    ELSE IF ~(sub.total_paid >= MIN_TOTAL_PAID_FOR_REVIEW)
    THEN "InsufficientTotalPaid"
    ELSE "Ok"

\* "SYBIL RESISTANCE - Verify subscription age >= 7 days".
OldEnough(sub, t) == t - sub.created_at >= MIN_SUBSCRIPTION_AGE_SECONDS

\* Mutant: an existing Review account is accepted (init_if_needed).
ReviewInit_IfNeeded(review) == "Ok"

\* `init` of the Review account at seeds [b"review", merchant, reviewer]:
\* creating an account that already exists fails.
ReviewInit(review) == IF review.exists THEN "AccountAlreadyInUse" ELSE "Ok"

\* Mutant: a negative delta is a checked subtraction.
ApplyScoreChange_CheckedBoth(score, score_change) ==
    IF score_change >= 0
    THEN CheckedAddI32(score, score_change)
    ELSE IF score < I32_MIN - score_change
    THEN [ok |-> FALSE, v |-> score]
    ELSE [ok |-> TRUE, v |-> score + score_change]

\* checked_add for a delta >= 0, saturating_sub of its absolute value
\* otherwise.
ApplyScoreChange(score, score_change) ==
    IF score_change >= 0
    THEN CheckedAddI32(score, score_change)
    ELSE [ok |-> TRUE, v |-> SaturatingSubI32(score, -score_change)]

submit_review(review, m, sub, reviewer, rating, comment_len, t) ==
    LET fail(e) == [err |-> e, review |-> review, m |-> m]
        sc == ApplyScoreChange(m.community_score, ScoreChange(rating))
    IN IF ReviewInit(review) # "Ok" THEN fail(ReviewInit(review))
       ELSE IF ~m.exists THEN fail("AccountNotInitialized")
       ELSE IF ReviewSubscriptionCheck(sub) # "Ok"
       THEN fail(ReviewSubscriptionCheck(sub))
       ELSE IF ~(rating >= 1 /\ rating <= 5) THEN fail("InvalidRating")
       ELSE IF ~(comment_len # 0 /\ comment_len <= MAX_REVIEW_COMMENT_LEN)
       THEN fail("InvalidComment")
       ELSE IF ~OldEnough(sub, t) THEN fail("SubscriptionTooNew")
       ELSE IF ~sc.ok THEN fail("Overflow")
       ELSE [err |-> "Ok",
             review |-> [exists |-> TRUE, merchant |-> m.owner,
                         reviewer |-> reviewer, rating |-> rating,
                         comment_len |-> comment_len, timestamp |-> t],
             m |-> [m EXCEPT !.community_score = sc.v]]

\* ------------------------------------------------------------------------
\* Actions: one per instruction, committing only a successful result
\* ------------------------------------------------------------------------
NoKey == <<>>

Result(op, err, caller, key, merchant) ==
    [op |-> op, err |-> err, caller |-> caller, sub |-> key,
     merchant |-> merchant]

NoCalc == [called |-> FALSE, amount |-> 0, basis_points |-> 0, min_fee |-> 0,
           max_fee |-> 0, err |-> "Ok", fee |-> 0]

billingVars == <<platform, subs, token>>
registryVars == <<registry, merchants, reviews>>

Tick(d, max_elapsed) ==
    /\ now + d <= StartTime + max_elapsed
    /\ now' = now + d
    /\ last' = Result("tick", "Ok", "", NoKey, "")
    /\ UNCHANGED <<billingVars, registryVars, calc>>

InitializePlatform(caller, daily_volume_limit, fee_basis_points) ==
    LET r == initialize_platform(platform, caller, daily_volume_limit,
                                 fee_basis_points, now)
    IN /\ last' = Result("initialize_platform", r.err, caller, NoKey, "")
       /\ platform' = IF r.err = "Ok" THEN r.plat ELSE platform
       /\ UNCHANGED <<now, subs, token, registryVars, calc>>

CreateSubscription(user, merchant, amount, frequency_seconds, max_per_transaction, lifetime_cap, name_len) ==
    LET k == <<user, merchant>>
        r == create_subscription(subs[k], platform, token, user, merchant,
                                 amount, frequency_seconds,
                                 max_per_transaction, lifetime_cap, name_len,
                                 now)
    IN /\ last' = Result("create_subscription", r.err, user, k, merchant)
       /\ IF r.err = "Ok"
          THEN /\ subs' = [subs EXCEPT ![k] = r.sub]
               /\ platform' = r.plat
               /\ token' = r.tok
          ELSE UNCHANGED billingVars
       /\ UNCHANGED <<now, registryVars, calc>>

\* Mutant: the accounts written by a failing handler are kept.
ExecutePayment_NoRollback(k, caller, fee_account) ==
    LET r == execute_payment(subs[k], platform, token, fee_account, now)
    IN /\ last' = Result("execute_payment", r.err, caller, k, k[2])
       /\ subs' = [subs EXCEPT ![k] = r.sub]
       /\ platform' = r.plat
       /\ token' = r.tok
       /\ UNCHANGED <<now, registryVars, calc>>

\* execute_payment makes no call into the merchant registry: the accounts of
\* ExecutePayment hold no Merchant account and the handler invokes only the
\* token program.
ExecutePayment(k, caller, fee_account) ==
    LET r == execute_payment(subs[k], platform, token, fee_account, now)
    IN /\ last' = Result("execute_payment", r.err, caller, k, k[2])
       /\ IF r.err = "Ok"
          THEN /\ subs' = [subs EXCEPT ![k] = r.sub]
               /\ platform' = r.plat
               /\ token' = r.tok
          ELSE UNCHANGED billingVars
       /\ UNCHANGED <<now, registryVars, calc>>

PauseSubscription(k, caller) ==
    LET r == pause_subscription(subs[k], caller)
    IN /\ last' = Result("pause_subscription", r.err, caller, k, k[2])
       /\ subs' = IF r.err = "Ok" THEN [subs EXCEPT ![k] = r.sub] ELSE subs
       /\ UNCHANGED <<now, platform, token, registryVars, calc>>

ResumeSubscription(k, caller) ==
    LET r == resume_subscription(subs[k], caller, now)
    IN /\ last' = Result("resume_subscription", r.err, caller, k, k[2])
       /\ subs' = IF r.err = "Ok" THEN [subs EXCEPT ![k] = r.sub] ELSE subs
       /\ UNCHANGED <<now, platform, token, registryVars, calc>>

CancelSubscription(k, caller) ==
    LET r == cancel_subscription(subs[k], platform, token, caller)
    IN /\ last' = Result("cancel_subscription", r.err, caller, k, k[2])
       /\ IF r.err = "Ok"
          THEN /\ subs' = [subs EXCEPT ![k] = r.sub]
               /\ platform' = r.plat
               /\ token' = r.tok
          ELSE UNCHANGED billingVars
       /\ UNCHANGED <<now, registryVars, calc>>

CloseSubscription(k, caller) ==
    LET r == close_subscription(subs[k], caller)
    IN /\ last' = Result("close_subscription", r.err, caller, k, k[2])
       /\ subs' = IF r.err = "Ok" THEN [subs EXCEPT ![k] = r.sub] ELSE subs
       /\ UNCHANGED <<now, platform, token, registryVars, calc>>

\* Mutant: the account written by a failing handler is kept.
UpdateLimits_NoRollback(k, caller, new_max_per_transaction, new_lifetime_cap) ==
    LET r == update_limits(subs[k], token, caller, new_max_per_transaction,
                           new_lifetime_cap)
    IN /\ last' = Result("update_limits", r.err, caller, k, k[2])
       /\ subs' = [subs EXCEPT ![k] = r.sub]
       /\ token' = r.tok
       /\ UNCHANGED <<now, platform, registryVars, calc>>

\* A failed instruction is rolled back by the runtime: its writes are
\* committed only when the handler returns Ok.
UpdateLimits(k, caller, new_max_per_transaction, new_lifetime_cap) ==
    LET r == update_limits(subs[k], token, caller, new_max_per_transaction,
                           new_lifetime_cap)
    IN /\ last' = Result("update_limits", r.err, caller, k, k[2])
       /\ IF r.err = "Ok"
          THEN /\ subs' = [subs EXCEPT ![k] = r.sub]
               /\ token' = r.tok
          ELSE UNCHANGED <<subs, token>>
       /\ UNCHANGED <<now, platform, registryVars, calc>>

EmergencyPause(caller) ==
    LET r == emergency_pause(platform, caller)
    IN /\ last' = Result("emergency_pause", r.err, caller, NoKey, "")
       /\ platform' = IF r.err = "Ok" THEN r.plat ELSE platform
       /\ UNCHANGED <<now, subs, token, registryVars, calc>>

EmergencyUnpause(caller) ==
    LET r == emergency_unpause(platform, caller, now)
    IN /\ last' = Result("emergency_unpause", r.err, caller, NoKey, "")
       /\ platform' = IF r.err = "Ok" THEN r.plat ELSE platform
       /\ UNCHANGED <<now, subs, token, registryVars, calc>>

InitializeRegistry(caller) ==
    LET r == initialize_registry(registry, caller)
    IN /\ last' = Result("initialize_registry", r.err, caller, NoKey, "")
       /\ registry' = IF r.err = "Ok" THEN r.reg ELSE registry
       /\ UNCHANGED <<now, billingVars, merchants, reviews, calc>>

ApplyForVerification(owner) ==
    LET r == apply_for_verification(merchants[owner], registry, owner)
    IN /\ last' = Result("apply_for_verification", r.err, owner, NoKey, owner)
       /\ IF r.err = "Ok"
          THEN /\ merchants' = [merchants EXCEPT ![owner] = r.m]
               /\ registry' = r.reg
          ELSE UNCHANGED <<merchants, registry>>
       /\ UNCHANGED <<now, billingVars, reviews, calc>>

ApproveMerchant(owner, caller, tier) ==
    LET r == approve_merchant(merchants[owner], registry, caller, tier)
    IN /\ last' = Result("approve_merchant", r.err, caller, NoKey, owner)
       /\ IF r.err = "Ok"
          THEN /\ merchants' = [merchants EXCEPT ![owner] = r.m]
               /\ registry' = r.reg
          ELSE UNCHANGED <<merchants, registry>>
       /\ UNCHANGED <<now, billingVars, reviews, calc>>

SuspendMerchant(owner, caller, reason_len) ==
    LET r == suspend_merchant(merchants[owner], registry, caller, reason_len)
    IN /\ last' = Result("suspend_merchant", r.err, caller, NoKey, owner)
       /\ merchants' = IF r.err = "Ok"
                       THEN [merchants EXCEPT ![owner] = r.m] ELSE merchants
       /\ UNCHANGED <<now, billingVars, registry, reviews, calc>>

\* registry_fee_account is a token account named by the caller: the accounts
\* of SubscribePremiumBadge put no constraint on it.
SubscribePremiumBadge(owner, fee_account) ==
    LET r == subscribe_premium_badge(merchants[owner], registry, token, owner,
                                     fee_account, now)
    IN /\ last' = Result("subscribe_premium_badge", r.err, owner, NoKey, owner)
       /\ IF r.err = "Ok"
          THEN /\ merchants' = [merchants EXCEPT ![owner] = r.m]
               /\ token' = r.tok
          ELSE UNCHANGED <<merchants, token>>
       /\ UNCHANGED <<now, platform, subs, registry, reviews, calc>>

\* record_transaction as an instruction of a transaction submitted by
\* `caller`: it is the top-level instruction at index current_index, and the
\* instruction before it (if any) is a successful instruction of program
\* prev_program that changes no account modelled here (for lutrii-recurring,
\* update_limits(None, None) on the caller's own subscription).  No handler
\* of lutrii-recurring invokes record_transaction, so every invocation has
\* this origin.
RecordTransaction(owner, caller, current_index, prev_program, amount, success) ==
    LET r == record_transaction(merchants[owner], current_index, prev_program,
                                amount, success, now)
    IN /\ last' = Result("record_transaction", r.err, caller, NoKey, owner)
       /\ merchants' = IF r.err = "Ok"
                       THEN [merchants EXCEPT ![owner] = r.m] ELSE merchants
       /\ UNCHANGED <<now, billingVars, registry, reviews, calc>>

SubmitReview(owner, reviewer, rating, comment_len) ==
    LET r == submit_review(reviews[<<owner, reviewer>>], merchants[owner],
                           subs[<<reviewer, owner>>], reviewer, rating,
                           comment_len, now)
    IN /\ last' = Result("submit_review", r.err, reviewer,
                         <<reviewer, owner>>, owner)
       /\ IF r.err = "Ok"
          THEN /\ reviews' = [reviews EXCEPT ![<<owner, reviewer>>] = r.review]
               /\ merchants' = [merchants EXCEPT ![owner] = r.m]
          ELSE UNCHANGED <<reviews, merchants>>
       /\ UNCHANGED <<now, billingVars, registry, calc>>

CalculateFee(amount, basis_points, min_fee, max_fee) ==
    LET r == calculate_fee(amount, basis_points, min_fee, max_fee)
    IN /\ calc' = [called |-> TRUE, amount |-> amount,
                   basis_points |-> basis_points, min_fee |-> min_fee,
                   max_fee |-> max_fee, err |-> r.err, fee |-> r.fee]
       /\ UNCHANGED <<now, billingVars, registryVars, last>>

\* ------------------------------------------------------------------------
\* Spec: the billing engine (lutrii-recurring) from deployment
\* ------------------------------------------------------------------------
Init ==
    /\ now = StartTime
    /\ platform = NoPlatform
    /\ subs = [k \in SubKeys |-> NoSub]
    /\ token = InitToken
    /\ registry = NoRegistry
    /\ merchants = [o \in MerchantOwners |-> NoMerchant]
    /\ reviews = [k \in MerchantOwners \X Users |-> NoReview]
    /\ last = Result("deploy", "Ok", "", NoKey, "")
    /\ calc = NoCalc

HalfDay == SECONDS_PER_DAY \div 2
BillingVolumeLimit == 1500000
BillingBasisPoints == {0, 100, 501}
BillingAmounts == {0, 1000000}
BillingFrequencies == {MIN_FREQUENCY_SECONDS - 1, HalfDay, SECONDS_PER_DAY}
BillingCaps == {999999, 1000000, 2000000}
BillingNewMaxTx == {-1, 999999, 3000000}
BillingNewCaps == {-1, 1000000, 3000000}
\* The payer of the subscription this specification follows.
Payer == "u1"
PayerKeys == {k \in SubKeys : k[1] = Payer}

Next ==
    \/ Tick(HalfDay, MaxElapsed)
    \/ \E bp \in BillingBasisPoints :
          InitializePlatform(Admin, BillingVolumeLimit, bp)
    \/ \E m \in MerchantOwners, a \in BillingAmounts,
          f \in BillingFrequencies, c \in BillingCaps :
          CreateSubscription(Payer, m, a, f, 1000000, c, 8)
    \/ \E k \in PayerKeys : ExecutePayment(k, Outsider, FeeAccount)
    \/ \E k \in PayerKeys : \E c \in {k[1], Outsider} : PauseSubscription(k, c)
    \/ \E k \in PayerKeys : \E c \in {k[1], Outsider} : ResumeSubscription(k, c)
    \/ \E k \in PayerKeys : \E c \in {k[1], Outsider} : CancelSubscription(k, c)
    \/ \E k \in PayerKeys : \E c \in {k[1], Outsider} : CloseSubscription(k, c)
    \/ \E k \in PayerKeys, mx \in BillingNewMaxTx, lc \in BillingNewCaps :
          UpdateLimits(k, k[1], mx, lc)
    \/ \E c \in {Admin, Outsider} : EmergencyPause(c)
    \/ \E c \in {Admin, Outsider} : EmergencyUnpause(c)

Spec == Init /\ [][Next]_vars

\* ------------------------------------------------------------------------
\* Properties of the billing engine
\* ------------------------------------------------------------------------
ExecutedOk(k) ==
    last.op = "execute_payment" /\ last.err = "Ok" /\ last.sub = k

\* C1: for every subscription, over every step of create_subscription,
\* execute_payment, pause, resume, update_limits and cancel, total_paid does
\* not decrease and total_paid <= lifetime_cap holds in the resulting state,
\* also after update_limits has lowered lifetime_cap.
C1_TotalPaidMonotoneWithinCap ==
    [][\A k \in SubKeys :
          /\ subs'[k].exists => subs'[k].total_paid <= subs'[k].lifetime_cap
          /\ (subs[k].exists /\ subs'[k].exists)
                => subs'[k].total_paid >= subs[k].total_paid]_vars

\* update_limits has lowered lifetime_cap onto a non-zero total_paid: the
\* delegation still stands at the remainder of the cap given at creation.
C1_Witness ==
    \E k \in SubKeys :
        /\ last.op = "update_limits" /\ last.err = "Ok" /\ last.sub = k
        /\ subs[k].total_paid = 1000000
        /\ subs[k].lifetime_cap = 1000000
        /\ token.delegated_amount[k[1]] = 1000000

\* C2: execute_payment does not succeed while now < next_payment, it fails
\* with PaymentNotDue when that is the first check to fail, and after a
\* successful execute_payment last_payment = now and
\* next_payment = last_payment + frequency_seconds.
C2_DueDate ==
    [][\A k \in SubKeys :
          (last'.op = "execute_payment" /\ last'.sub = k) =>
             /\ now < subs[k].next_payment => last'.err # "Ok"
             /\ ( /\ platform.exists /\ ~platform.emergency_pause
                  /\ subs[k].exists /\ subs[k].is_active /\ ~subs[k].is_paused
                  /\ now < subs[k].next_payment )
                   => last'.err = "PaymentNotDue"
             /\ last'.err = "Ok" =>
                   /\ subs'[k].last_payment = now
                   /\ subs'[k].next_payment =
                         subs'[k].last_payment + subs'[k].frequency_seconds]_vars

\* A second payment of a subscription has been executed.
C2_Witness ==
    \E k \in SubKeys : ExecutedOk(k) /\ subs[k].payment_count = 2

\* ------------------------------------------------------------------------
\* SpecFee: calculate_fee applied to arguments drawn from bounded sets
\* ------------------------------------------------------------------------
FeeAmounts == {0, 1, 9999, 1000000, 2000000, 4000000}
FeeBasisPoints == {1, 30, 100, 500}
FeeMinimums == {0, 10000, 150000}
FeeMaximums == {10000, 100000, 500000}

NextFee ==
    \E a \in FeeAmounts, bp \in FeeBasisPoints, mn \in FeeMinimums,
       mx \in FeeMaximums : CalculateFee(a, bp, mn, mx)

SpecFee == Init /\ [][NextFee]_vars

\* C3: for every amount, every basis-point rate in [1,500] and every
\* min_fee <= max_fee, calculate_fee returns a fee with
\* min_fee <= fee <= max_fee.
C3_FeeWithinBounds ==
    ( /\ calc.called
      /\ calc.basis_points >= 1 /\ calc.basis_points <= 500
      /\ calc.min_fee <= calc.max_fee )
       => /\ calc.err = "Ok"
          /\ calc.min_fee <= calc.fee
          /\ calc.fee <= calc.max_fee

\* A fee whose proportional value lies above max_fee has been computed.
C3_Witness ==
    /\ calc.called /\ calc.err = "Ok"
    /\ calc.basis_points = 500 /\ calc.min_fee <= calc.max_fee
    /\ (calc.amount * calc.basis_points) \div BASIS_POINTS_DIVISOR > calc.max_fee
    /\ calc.fee = calc.max_fee

\* ------------------------------------------------------------------------
\* SpecVariance: execute_payment on a subscription whose amount differs from
\* original_amount.  No instruction writes amount after create_subscription,
\* so under Spec amount = original_amount throughout; here the initial
\* states are those after create_subscription and zero or one payment with
\* the amount field of the account rewritten, which is the situation the
\* price-variance check of execute_payment is written for.
\* ------------------------------------------------------------------------
VarianceKey == <<Payer, "m1">>
VarianceAmounts == {899999, 900000, 1000000, 1100000, 1100001, 1150000}
VarianceVolumeLimit == 5000000

VarianceCreated ==
    create_subscription(NoSub,
        initialize_platform(NoPlatform, Admin, VarianceVolumeLimit, 100,
                            StartTime).plat,
        InitToken, Payer, "m1", 1000000, HalfDay, 2000000, 3000000, 8,
        StartTime)

VariancePaid ==
    execute_payment(VarianceCreated.sub, VarianceCreated.plat,
                    VarianceCreated.tok, FeeAccount, StartTime + HalfDay)

InitVariance ==
    \E paid \in BOOLEAN, a \in VarianceAmounts :
        LET s == IF paid THEN VariancePaid ELSE VarianceCreated
        IN /\ now = StartTime + HalfDay
           /\ platform = s.plat
           /\ subs = [k \in SubKeys |->
                        IF k = VarianceKey
                        THEN [s.sub EXCEPT !.amount = a] ELSE NoSub]
           /\ token = s.tok
           /\ registry = NoRegistry
           /\ merchants = [o \in MerchantOwners |-> NoMerchant]
           /\ reviews = [k \in MerchantOwners \X Users |-> NoReview]
           /\ last = Result("deploy", "Ok", "", NoKey, "")
           /\ calc = NoCalc

NextVariance ==
    \/ Tick(HalfDay, MaxElapsed)
    \/ ExecutePayment(VarianceKey, Outsider, FeeAccount)
    \/ PauseSubscription(VarianceKey, Payer)
    \/ ResumeSubscription(VarianceKey, Payer)

SpecVariance == InitVariance /\ [][NextVariance]_vars

OutOfBand(sub) ==
    AbsDiff(sub.amount, sub.original_amount) > sub.original_amount \div 10

\* C4: for every execute_payment on a subscription with payment_count > 0:
\* it succeeds only if |amount - original_amount| <= original_amount / 10
\* (integer division); with amount outside that band it is rejected, with
\* PriceVarianceExceeded when every earlier check passes, and total_paid,
\* payment_count, next_payment, total_volume_24h and total_transactions
\* (the whole subscription, platform and ledger) are unchanged.
C4_PriceVariance ==
    [][\A k \in SubKeys :
          ( /\ last'.op = "execute_payment" /\ last'.sub = k
            /\ subs[k].exists /\ subs[k].payment_count > 0 ) =>
             /\ last'.err = "Ok" => ~OutOfBand(subs[k])
             /\ OutOfBand(subs[k]) =>
                   /\ last'.err # "Ok"
                   /\ UNCHANGED <<subs, platform, token>>
             /\ ( /\ OutOfBand(subs[k])
                  /\ ~platform.emergency_pause
                  /\ subs[k].is_active /\ ~subs[k].is_paused
                  /\ now >= subs[k].next_payment
                  /\ subs[k].total_paid + subs[k].amount <= subs[k].lifetime_cap
                  /\ VolumeWindowReset(platform, now).total_volume_24h
                        + subs[k].amount <= platform.daily_volume_limit )
                   => last'.err = "PriceVarianceExceeded"]_vars

\* Scenario B: the second payment, with amount 1,150,000 against an
\* original amount of 1,000,000, has been rejected for price variance.
C4_Witness ==
    /\ last.op = "execute_payment" /\ last.err = "PriceVarianceExceeded"
    /\ subs[VarianceKey].payment_count = 1
    /\ subs[VarianceKey].original_amount = 1000000
    /\ subs[VarianceKey].amount = 1150000

\* ------------------------------------------------------------------------
\* SpecRegistry: the merchant registry from deployment, one merchant
\* ------------------------------------------------------------------------
\* Reports a merchant may accumulate.
MaxSuccessfulReports == 101
MaxFailedReports == 6
ReportAmount == 1000000
\* Approvals counted in verified_merchants (every approval of an Unverified
\* merchant as Verified counts again).
MaxVerifications == 2

NextRegistry ==
    \/ InitializeRegistry(Admin)
    \/ \E o \in MerchantOwners : ApplyForVerification(o)
    \/ \E o \in MerchantOwners, c \in {Admin, Outsider}, t \in Tiers :
          /\ registry.verified_merchants < MaxVerifications
          /\ ApproveMerchant(o, c, t)
    \/ \E o \in MerchantOwners, c \in {Admin, Outsider}, n \in {0, 10} :
          SuspendMerchant(o, c, n)
    \/ \E o \in MerchantOwners, i \in {0, 1}, p \in Programs,
          ok \in BOOLEAN :
          /\ merchants[o].total_transactions < MaxSuccessfulReports
          /\ merchants[o].failed_transactions < MaxFailedReports
          /\ RecordTransaction(o, Outsider, i, p, ReportAmount, ok)

SpecRegistry == Init /\ [][NextRegistry]_vars

\* C5: over every sequence of merchant operations, verification_tier
\* becomes Community only in record_transaction by the automatic rule
\* (approve_merchant with tier = Community is rejected with
\* CannotManuallySetCommunityTier and changes nothing), and it becomes
\* Suspended only by an administrator action (suspend_merchant or
\* approve_merchant by the registry authority) or by record_transaction with
\* community_score < -100.
C5_TierMonotonicity ==
    [][\A o \in MerchantOwners :
          /\ ( merchants'[o].verification_tier = "Community"
               /\ merchants[o].verification_tier # "Community" ) =>
                /\ last'.op = "record_transaction" /\ last'.err = "Ok"
                /\ merchants[o].verification_tier = "Verified"
                /\ merchants'[o].total_transactions >= 100
                /\ merchants'[o].community_score >= 1000
                /\ merchants'[o].failed_transactions < 5
          /\ ( merchants'[o].verification_tier = "Suspended"
               /\ merchants[o].verification_tier # "Suspended" ) =>
                \/ /\ last'.op \in {"suspend_merchant", "approve_merchant"}
                   /\ last'.err = "Ok"
                   /\ last'.caller = registry.authority
                \/ /\ last'.op = "record_transaction" /\ last'.err = "Ok"
                   /\ merchants'[o].community_score < -100
          /\ ( last'.op = "approve_merchant"
               /\ last'.err = "CannotManuallySetCommunityTier" ) =>
                UNCHANGED <<merchants, registry>>]_vars

\* The automatic rule has just promoted a merchant to Community.
C5_Witness ==
    \E o \in MerchantOwners :
        /\ last.op = "record_transaction" /\ last.err = "Ok"
        /\ merchants[o].verification_tier = "Community"
        /\ merchants[o].total_transactions = 100

\* C8: record_transaction mutates a merchant record only as a consequence of
\* execute_payment.  No invocation in this model comes from execute_payment
\* (the handler makes no such call), so the claim is that every invocation
\* is rejected with MustBeCalledViaCpi or UnauthorizedCpiCaller and leaves
\* the merchant unchanged.
C8_ReportOnlyFromBillingEngine ==
    [][last'.op = "record_transaction" =>
          /\ last'.err \in {"MustBeCalledViaCpi", "UnauthorizedCpiCaller",
                            "AccountNotInitialized"}
          /\ UNCHANGED merchants]_vars

\* ------------------------------------------------------------------------
\* SpecScenarioC: a Verified merchant with no history receives successful
\* reports only
\* ------------------------------------------------------------------------
MaxScenarioReports == 102

ScenarioRegistry == initialize_registry(NoRegistry, Admin).reg

ScenarioApplied == apply_for_verification(NoMerchant, ScenarioRegistry, "m1")

ScenarioVerified ==
    approve_merchant(ScenarioApplied.m, ScenarioApplied.reg, Admin, "Verified")

InitScenarioC ==
    /\ now = StartTime
    /\ platform = NoPlatform
    /\ subs = [k \in SubKeys |-> NoSub]
    /\ token = InitToken
    /\ registry = ScenarioVerified.reg
    /\ merchants = [o \in MerchantOwners |->
                      IF o = "m1" THEN ScenarioVerified.m ELSE NoMerchant]
    /\ reviews = [k \in MerchantOwners \X Users |-> NoReview]
    /\ last = Result("approve_merchant", "Ok", Admin, NoKey, "m1")
    /\ calc = NoCalc

NextScenarioC ==
    /\ merchants["m1"].total_transactions < MaxScenarioReports
    /\ RecordTransaction("m1", Outsider, 1, RecurringProgram, ReportAmount,
                         TRUE)

SpecScenarioC == InitScenarioC /\ [][NextScenarioC]_vars

\* C10 as stated: the tier remains Verified through the 100th successful
\* report and becomes Community on the 101st, with community_score = 1010.
C10_Original ==
    /\ merchants["m1"].total_transactions <= 100
          => merchants["m1"].verification_tier = "Verified"
    /\ merchants["m1"].total_transactions = 101
          => /\ merchants["m1"].verification_tier = "Community"
             /\ merchants["m1"].community_score = 1010

\* C10 as amended: the tier remains Verified through the 99th successful
\* report and becomes Community on the 100th, at which point
\* community_score = 1000; it is Community with community_score = 1010
\* after the 101st.
C10_PromotedAtHundredth ==
    /\ merchants["m1"].community_score = 10 * merchants["m1"].total_transactions
    /\ merchants["m1"].failed_transactions = 0
    /\ merchants["m1"].total_transactions <= 99
          => merchants["m1"].verification_tier = "Verified"
    /\ merchants["m1"].total_transactions >= 100
          => merchants["m1"].verification_tier = "Community"

\* The 100th report has been recorded.
C10_Witness ==
    /\ last.op = "record_transaction" /\ last.err = "Ok"
    /\ merchants["m1"].total_transactions = 100
    /\ merchants["m1"].community_score = 1000
    /\ merchants["m1"].verification_tier = "Community"

\* ------------------------------------------------------------------------
\* SpecSystem: both programs, one payer subscribed to one merchant, the
\* clock advancing by days
\* ------------------------------------------------------------------------
SystemElapsedDays == 8
SystemVolumeLimit == 5000000
SystemAmounts == {100000, 1000000}
SystemLifetimeCap == 3000000
SystemRatings == {0, 1, 3, 5}
SystemCommentLengths == {0, 10}

NextSystem ==
    \/ Tick(SECONDS_PER_DAY, SystemElapsedDays * SECONDS_PER_DAY)
    \/ InitializePlatform(Admin, SystemVolumeLimit, 100)
    \/ InitializeRegistry(Admin)
    \/ \E o \in MerchantOwners : ApplyForVerification(o)
    \/ \E o \in MerchantOwners :
          /\ merchants[o].verification_tier = "Unverified"
          /\ ApproveMerchant(o, Admin, "Verified")
    \/ \E m \in MerchantOwners, a \in SystemAmounts :
          CreateSubscription(Payer, m, a, SECONDS_PER_DAY, a,
                             SystemLifetimeCap, 8)
    \/ \E k \in PayerKeys : ExecutePayment(k, Outsider, FeeAccount)
    \/ \E k \in PayerKeys : CancelSubscription(k, Payer)
    \/ \E o \in MerchantOwners, u \in Users, r \in SystemRatings,
          n \in SystemCommentLengths : SubmitReview(o, u, r, n)

SpecSystem == Init /\ [][NextSystem]_vars

\* C6: submit_review is rejected, with the merchant's community_score
\* unchanged and no Review created, whenever the reviewer's subscription to
\* the merchant is inactive (or absent), or has payment_count < 3, or has
\* total_paid < 1,000,000, or has now - created_at < 7 days, whatever the
\* other fields are.
C6_ReviewGate ==
    [][\A o \in MerchantOwners, u \in Users :
          ( /\ last'.op = "submit_review"
            /\ last'.merchant = o /\ last'.caller = u
            /\ \/ ~subs[<<u, o>>].exists
               \/ ~subs[<<u, o>>].is_active
               \/ subs[<<u, o>>].payment_count < 3
               \/ subs[<<u, o>>].total_paid < 1000000
               \/ now - subs[<<u, o>>].created_at < 7 * 86400 ) =>
             /\ last'.err # "Ok"
             /\ UNCHANGED <<merchants, reviews>>]_vars

\* A review has been rejected for the age of the subscription alone: the
\* subscription is active with three payments and 1,000,000 paid.
C6_Witness ==
    \E o \in MerchantOwners, u \in Users :
        /\ last.op = "submit_review" /\ last.err = "SubscriptionTooNew"
        /\ last.merchant = o /\ last.caller = u
        /\ subs[<<u, o>>].is_active
        /\ subs[<<u, o>>].payment_count >= 3
        /\ subs[<<u, o>>].total_paid >= 1000000

\* C7: for every (merchant, reviewer) pair at most one submit_review is
\* accepted: a submission when the pair's Review exists is rejected, the
\* stored Review keeps its rating and comment, and community_score is not
\* changed by the rejected submission.
C7_OneReviewPerPair ==
    [][\A o \in MerchantOwners, u \in Users :
          reviews[<<o, u>>].exists =>
             /\ reviews'[<<o, u>>] = reviews[<<o, u>>]
             /\ ( /\ last'.op = "submit_review"
                  /\ last'.merchant = o /\ last'.caller = u ) =>
                   /\ last'.err # "Ok"
                   /\ UNCHANGED <<merchants, reviews>>]_vars

\* A second submission by a reviewer whose subscription still qualifies has
\* been rejected.
C7_Witness ==
    \E o \in MerchantOwners, u \in Users :
        /\ last.op = "submit_review" /\ last.err = "AccountAlreadyInUse"
        /\ last.merchant = o /\ last.caller = u
        /\ reviews[<<o, u>>].exists
        /\ ReviewSubscriptionCheck(subs[<<u, o>>]) = "Ok"

\* C9: after a successful execute_payment against merchant M,
\* M.total_transactions has increased by 1, M.total_volume by the charged
\* amount and M.community_score by 10.
C9_PaymentReported ==
    [][\A k \in SubKeys :
          ( /\ last'.op = "execute_payment" /\ last'.err = "Ok"
            /\ last'.sub = k /\ merchants[k[2]].exists ) =>
             /\ merchants'[k[2]].total_transactions =
                   merchants[k[2]].total_transactions + 1
             /\ merchants'[k[2]].total_volume =
                   merchants[k[2]].total_volume + subs[k].amount
             /\ merchants'[k[2]].community_score =
                   merchants[k[2]].community_score + 10]_vars

\* ------------------------------------------------------------------------
\* SpecScenarioD: a merchant with no history receives failed reports only
\* ------------------------------------------------------------------------
MaxScenarioFailures == 6
ScenarioDElapsedDays == 40

\* The Verified merchant after subscribe_premium_badge at StartTime.
ScenarioBadged ==
    subscribe_premium_badge(ScenarioVerified.m, ScenarioVerified.reg,
                            InitToken, "m1", RegistryFeeAccount, StartTime)

\* The merchant has applied, or has been approved as Verified, or has been
\* approved and holds a premium badge; no report has been recorded.
InitScenarioD ==
    \E s \in {"applied", "verified", "badged"} :
        /\ now = StartTime
        /\ platform = NoPlatform
        /\ subs = [k \in SubKeys |-> NoSub]
        /\ token = IF s = "badged" THEN ScenarioBadged.tok ELSE InitToken
        /\ registry = IF s = "applied" THEN ScenarioApplied.reg
                      ELSE ScenarioVerified.reg
        /\ merchants = [o \in MerchantOwners |->
                          CASE s = "applied" -> ScenarioApplied.m
                            [] s = "verified" -> ScenarioVerified.m
                            [] OTHER -> ScenarioBadged.m]
        /\ reviews = [k \in MerchantOwners \X Users |-> NoReview]
        /\ last = Result("deploy", "Ok", "", NoKey, "")
        /\ calc = NoCalc

NextScenarioD ==
    \/ Tick(10 * SECONDS_PER_DAY, ScenarioDElapsedDays * SECONDS_PER_DAY)
    \/ \E c \in Signers :
          /\ merchants["m1"].failed_transactions < MaxScenarioFailures
          /\ RecordTransaction("m1", c, 1, RecurringProgram, ReportAmount,
                               FALSE)

SpecScenarioD == InitScenarioD /\ [][NextScenarioD]_vars

\* C11: starting from a merchant with community_score 0, consecutive failed
\* reports yield the scores -25, -50, -75, -100, -125 (25 below zero per
\* report); the tier is not Suspended after the first four reports and is
\* Suspended, with premium_badge_active = FALSE, from the fifth report on,
\* the one that takes the score below -100.
C11_SuspendedAtFifthFailure ==
    /\ merchants["m1"].community_score =
          -25 * merchants["m1"].failed_transactions
    /\ merchants["m1"].failed_transactions <= 4
          => merchants["m1"].verification_tier # "Suspended"
    /\ merchants["m1"].failed_transactions >= 5
          => /\ merchants["m1"].verification_tier = "Suspended"
             /\ ~merchants["m1"].premium_badge_active

\* The fifth failed report has suspended a merchant whose premium badge had
\* not yet expired.
C11_Witness ==
    /\ last.op = "record_transaction" /\ last.err = "Ok"
    /\ merchants["m1"].failed_transactions = 5
    /\ merchants["m1"].community_score = -125
    /\ merchants["m1"].verification_tier = "Suspended"
    /\ ~merchants["m1"].premium_badge_active
    /\ merchants["m1"].premium_badge_expires > now

\* ------------------------------------------------------------------------
\* SpecPause: both programs with the emergency pause, one payer subscribed
\* to one merchant, the clock advancing by a third of the minimum age of a
\* reviewer's subscription
\* ------------------------------------------------------------------------
PauseElapsedDays == 10
PauseStep == MIN_SUBSCRIPTION_AGE_SECONDS \div 3
PauseVolumeLimit == 5000000
PauseLifetimeCap == 3000000

NextPause ==
    \/ Tick(PauseStep, PauseElapsedDays * SECONDS_PER_DAY)
    \/ InitializePlatform(Admin, PauseVolumeLimit, 100)
    \/ InitializeRegistry(Admin)
    \/ \E o \in MerchantOwners : ApplyForVerification(o)
    \/ \E m \in MerchantOwners :
          CreateSubscription(Payer, m, 1000000, PauseStep, 1000000,
                             PauseLifetimeCap, 8)
    \/ \E k \in PayerKeys : ExecutePayment(k, Outsider, FeeAccount)
    \/ \E k \in PayerKeys : PauseSubscription(k, Payer)
    \/ \E k \in PayerKeys : ResumeSubscription(k, Payer)
    \/ \E k \in PayerKeys : CancelSubscription(k, Payer)
    \/ \E o \in MerchantOwners, r \in {1, 5} : SubmitReview(o, Payer, r, 10)
    \/ EmergencyPause(Admin)
    \/ EmergencyUnpause(Admin)

SpecPause == Init /\ [][NextPause]_vars

\* C12: while emergency_pause is true every execute_payment and every
\* create_subscription fails and changes no state, with SystemPaused
\* whenever its accounts validate (the subscription exists, respectively
\* does not exist yet); pause_subscription, resume_subscription,
\* cancel_subscription and submit_review (with a valid rating and comment)
\* succeed under their usual preconditions while the flag is set.
C12_EmergencyPause ==
    [][platform.emergency_pause =>
        \A k \in SubKeys :
          /\ ( last'.op \in {"execute_payment", "create_subscription"}
               /\ last'.sub = k ) =>
                /\ last'.err # "Ok"
                /\ UNCHANGED <<billingVars, registryVars>>
                /\ ( subs[k].exists <=> last'.op = "execute_payment" )
                      => last'.err = "SystemPaused"
          /\ ( /\ last'.op = "pause_subscription" /\ last'.sub = k
               /\ last'.caller = subs[k].user
               /\ subs[k].exists /\ subs[k].is_active /\ ~subs[k].is_paused )
                => last'.err = "Ok" /\ subs'[k].is_paused
          /\ ( /\ last'.op = "resume_subscription" /\ last'.sub = k
               /\ last'.caller = subs[k].user
               /\ subs[k].exists /\ subs[k].is_active /\ subs[k].is_paused )
                => last'.err = "Ok" /\ ~subs'[k].is_paused
          /\ ( /\ last'.op = "cancel_subscription" /\ last'.sub = k
               /\ last'.caller = subs[k].user
               /\ subs[k].exists /\ subs[k].is_active )
                => last'.err = "Ok" /\ ~subs'[k].is_active
          /\ ( /\ last'.op = "submit_review" /\ last'.sub = k
               /\ merchants[k[2]].exists
               /\ ~reviews[<<k[2], k[1]>>].exists
               /\ ReviewSubscriptionCheck(subs[k]) = "Ok"
               /\ OldEnough(subs[k], now) )
                => last'.err = "Ok" /\ reviews'[<<k[2], k[1]>>].exists]_vars

\* While the flag is set, a payment that is due on an active, unpaused
\* subscription has been refused, after the payer's review of the merchant
\* was accepted.
C12_Witness ==
    \E k \in SubKeys :
        /\ last.op = "execute_payment" /\ last.err = "SystemPaused"
        /\ last.sub = k
        /\ platform.emergency_pause
        /\ subs[k].is_active /\ ~subs[k].is_paused
        /\ now >= subs[k].next_payment
        /\ reviews[<<k[2], k[1]>>].exists

\* ------------------------------------------------------------------------
\* SpecAtomic: every instruction of both programs, from deployment and from
\* the states in which payment_count or total_transactions stands at the
\* bound of its width
\* ------------------------------------------------------------------------
AtomicAmount == 20000
AtomicVolumeLimit == 1000000
AtomicElapsedDays == 1
AtomicReports == 1

\* The accounts after create_subscription at time t0 and n payments of
\* `amount` at intervals of MIN_FREQUENCY_SECONDS, the last one at time t,
\* on a platform that has executed total_transactions payments in all: each
\* payment moves amount - fee to the merchant and fee to the fee account and
\* consumes `amount` of the delegation of lifetime_cap; the payer's token
\* account has been refilled to InitBalance by deposits.
AfterPayments(n, total_transactions, amount, lifetime_cap, t) ==
    LET fee == calculate_fee(amount, 100, INITIAL_MIN_FEE, INITIAL_MAX_FEE).fee
        key == <<Payer, "m1">>
    IN [sub |-> [exists |-> TRUE, user |-> Payer, merchant |-> "m1",
                 amount |-> amount, original_amount |-> amount,
                 frequency_seconds |-> MIN_FREQUENCY_SECONDS,
                 last_payment |-> t,
                 next_payment |-> t + MIN_FREQUENCY_SECONDS,
                 total_paid |-> n * amount, payment_count |-> n,
                 is_active |-> TRUE, is_paused |-> FALSE,
                 max_per_transaction |-> amount,
                 lifetime_cap |-> lifetime_cap, merchant_name_len |-> 8,
                 created_at |-> t - n * MIN_FREQUENCY_SECONDS],
        plat |-> [exists |-> TRUE, authority |-> Admin,
                  daily_volume_limit |-> AtomicVolumeLimit,
                  total_volume_24h |-> amount, last_volume_reset |-> t,
                  failed_tx_count |-> 0, emergency_pause |-> FALSE,
                  fee_basis_points |-> 100, min_fee |-> INITIAL_MIN_FEE,
                  max_fee |-> INITIAL_MAX_FEE, total_subscriptions |-> 1,
                  total_transactions |-> total_transactions],
        tok |-> [balance |-> [a \in TokenAccounts |->
                                CASE a = Payer -> InitBalance
                                  [] a = "m1" -> PREMIUM_BADGE_PRICE
                                                    + n * (amount - fee)
                                  [] a = FeeAccount -> n * fee
                                  [] OTHER -> InitToken.balance[a]],
                 delegate |-> [a \in TokenAccounts |->
                                 IF a = Payer /\ lifetime_cap > n * amount
                                 THEN key ELSE NoDelegate],
                 delegated_amount |-> [a \in TokenAccounts |->
                                 IF a = Payer THEN lifetime_cap - n * amount
                                 ELSE 0]]]

InitAtomic ==
    \/ Init
    \/ \E c \in {<<U32_MAX, U32_MAX>>, <<1, U64_MAX>>} :
          LET s == AfterPayments(c[1], c[2], AtomicAmount, U64_MAX,
                                 StartTime - MIN_FREQUENCY_SECONDS)
          IN /\ now = StartTime
             /\ platform = s.plat
             /\ subs = [k \in SubKeys |->
                          IF k = <<Payer, "m1">> THEN s.sub ELSE NoSub]
             /\ token = s.tok
             /\ registry = NoRegistry
             /\ merchants = [o \in MerchantOwners |-> NoMerchant]
             /\ reviews = [k \in MerchantOwners \X Users |-> NoReview]
             /\ last = Result("execute_payment", "Ok", Outsider,
                              <<Payer, "m1">>, "m1")
             /\ calc = NoCalc

NextAtomic ==
    \/ Tick(SECONDS_PER_DAY, AtomicElapsedDays * SECONDS_PER_DAY)
    \/ \E bp \in {0, 100} : InitializePlatform(Admin, AtomicVolumeLimit, bp)
    \/ \E m \in MerchantOwners, a \in {0, AtomicAmount} :
          CreateSubscription(Payer, m, a, MIN_FREQUENCY_SECONDS, AtomicAmount,
                             InitBalance, 8)
    \/ \E k \in PayerKeys : ExecutePayment(k, Outsider, FeeAccount)
    \/ \E k \in PayerKeys : PauseSubscription(k, k[1])
    \/ \E k \in PayerKeys : ResumeSubscription(k, Outsider)
    \/ \E k \in PayerKeys : CancelSubscription(k, Outsider)
    \/ \E k \in PayerKeys : CloseSubscription(k, k[1])
    \/ \E k \in PayerKeys : UpdateLimits(k, k[1], -1, 0)
    \/ EmergencyPause(Outsider)
    \/ EmergencyUnpause(Outsider)
    \/ InitializeRegistry(Admin)
    \/ \E o \in MerchantOwners : ApplyForVerification(o)
    \/ \E o \in MerchantOwners : ApproveMerchant(o, Admin, "Community")
    \/ \E o \in MerchantOwners : SuspendMerchant(o, Outsider, 10)
    \/ \E o \in MerchantOwners : SubscribePremiumBadge(o, RegistryFeeAccount)
    \/ \E o \in MerchantOwners, i \in {0, 1} :
          /\ merchants[o].failed_transactions < AtomicReports
          /\ RecordTransaction(o, Outsider, i, RecurringProgram, AtomicAmount,
                               FALSE)
    \/ \E o \in MerchantOwners : SubmitReview(o, Payer, 5, 10)

SpecAtomic == InitAtomic /\ [][NextAtomic]_vars

C14_CancelledIsTerminal ==
    [][\A k \in SubKeys :
          /\ ( subs[k].exists /\ ~subs[k].is_active ) =>
                /\ \/ subs'[k] = subs[k]
                   \/ /\ last'.op = "close_subscription" /\ last'.err = "Ok"
                      /\ last'.sub = k /\ ~subs'[k].exists
                /\ ( /\ last'.op \in {"pause_subscription",
                                      "resume_subscription", "update_limits",
                                      "execute_payment", "cancel_subscription"}
                     /\ last'.sub = k ) =>
                      /\ last'.err # "Ok"
                      /\ UNCHANGED billingVars
                      /\ ( IF last'.op = "execute_payment"
                           THEN ~platform.emergency_pause
                           ELSE last'.caller = subs[k].user )
                            => last'.err = "SubscriptionInactive"
          /\ ( /\ last'.op = "close_subscription" /\ last'.sub = k
               /\ subs[k].exists ) =>
                /\ last'.err = "Ok" => ~subs[k].is_active
                /\ ( ~subs[k].is_active /\ last'.caller = subs[k].user )
                      => last'.err = "Ok" /\ ~subs'[k].exists
                /\ ( subs[k].is_active /\ last'.caller = subs[k].user )
                      => /\ last'.err = "SubscriptionStillActive"
                         /\ UNCHANGED billingVars]_vars

\* A payment that is due has been refused on a cancelled subscription that
\* had been charged before.
C14_Witness ==
    \E k \in SubKeys :
        /\ last.op = "execute_payment" /\ last.err = "SubscriptionInactive"
        /\ last.sub = k
        /\ subs[k].exists /\ ~subs[k].is_active
        /\ subs[k].payment_count > 0
        /\ now >= subs[k].next_payment

\* ------------------------------------------------------------------------
\* SpecReview: reports and one reviewer's review on a merchant, from the
\* state in which the reviewer's subscription qualifies
\* ------------------------------------------------------------------------
MaxReviewFailures == 5
MaxReviewSuccesses == 2
ReviewedLifetimeCap == 3000000

\* The payer's subscription after three payments of 1,000,000.
ReviewerSubscribed ==
    AfterPayments(MIN_PAYMENTS_FOR_REVIEW, MIN_PAYMENTS_FOR_REVIEW,
                  MIN_TOTAL_PAID_FOR_REVIEW, ReviewedLifetimeCap,
                  StartTime + MIN_PAYMENTS_FOR_REVIEW * MIN_FREQUENCY_SECONDS)

\* Seven days after create_subscription at StartTime; the merchant has
\* applied, or has been approved as Verified, or holds a premium badge
\* bought at StartTime.
InitReview ==
    \E s \in {"applied", "verified", "badged"} :
        /\ now = StartTime + MIN_SUBSCRIPTION_AGE_SECONDS
        /\ platform = ReviewerSubscribed.plat
        /\ subs = [k \in SubKeys |->
                     IF k = <<Payer, "m1">> THEN ReviewerSubscribed.sub
                     ELSE NoSub]
        /\ token = [ReviewerSubscribed.tok EXCEPT
                       !.balance["m1"] =
                           IF s = "badged" THEN @ - PREMIUM_BADGE_PRICE ELSE @,
                       !.balance[RegistryFeeAccount] =
                           IF s = "badged" THEN @ + PREMIUM_BADGE_PRICE ELSE @]
        /\ registry = IF s = "applied" THEN ScenarioApplied.reg
                      ELSE ScenarioVerified.reg
        /\ merchants = [o \in MerchantOwners |->
                          CASE s = "applied" -> ScenarioApplied.m
                            [] s = "verified" -> ScenarioVerified.m
                            [] OTHER -> ScenarioBadged.m]
        /\ reviews = [k \in MerchantOwners \X Users |-> NoReview]
        /\ last = Result("tick", "Ok", "", NoKey, "")
        /\ calc = NoCalc

NextReview ==
    \/ \E ok \in BOOLEAN :
          /\ merchants["m1"].failed_transactions < MaxReviewFailures
          /\ merchants["m1"].total_transactions < MaxReviewSuccesses
          /\ RecordTransaction("m1", Outsider, 1, RecurringProgram,
                               ReportAmount, ok)
    \/ \E r \in 1..5 : SubmitReview("m1", Payer, r, 10)

SpecReview == InitReview /\ [][NextReview]_vars

\* C15: after every operation that changes community_score
\* (record_transaction and submit_review) the auto-promotion and
\* auto-suspension rules have been applied to the resulting record, so that
\* community_score < -100 implies tier = Suspended after every score
\* mutation.
C15_RulesAfterEveryScoreMutation ==
    [][\A o \in MerchantOwners :
          ( /\ last'.op \in {"record_transaction", "submit_review"}
            /\ last'.err = "Ok" /\ last'.merchant = o ) =>
             /\ merchants'[o] = AutoSuspend(AutoPromote(merchants'[o]))
             /\ merchants'[o].community_score < -100
                   => merchants'[o].verification_tier = "Suspended"]_vars

\* ------------------------------------------------------------------------
\* SpecBadge: the merchant registry with the premium badge, one merchant
\* ------------------------------------------------------------------------
BadgeElapsedDays == 45
MaxBadgeFailures == 5

NextBadge ==
    \/ Tick(15 * SECONDS_PER_DAY, BadgeElapsedDays * SECONDS_PER_DAY)
    \/ InitializeRegistry(Admin)
    \/ \E o \in MerchantOwners : ApplyForVerification(o)
    \/ \E o \in MerchantOwners, t \in Tiers :
          /\ registry.verified_merchants < MaxVerifications
          /\ ApproveMerchant(o, Admin, t)
    \/ \E o \in MerchantOwners : SuspendMerchant(o, Admin, 10)
    \/ \E o \in MerchantOwners : SubscribePremiumBadge(o, RegistryFeeAccount)
    \/ \E o \in MerchantOwners :
          /\ merchants[o].failed_transactions < MaxBadgeFailures
          /\ RecordTransaction(o, Outsider, 1, RecurringProgram, ReportAmount,
                               FALSE)

SpecBadge == Init /\ [][NextBadge]_vars

\* C16: in every reachable state a merchant whose verification_tier is
\* Suspended has premium_badge_active = FALSE, whether the suspension came
\* from record_transaction, from suspend_merchant or from approve_merchant
\* with tier = Suspended.
C16_SuspendedHasNoBadge ==
    \A o \in MerchantOwners :
        merchants[o].verification_tier = "Suspended"
           => ~merchants[o].premium_badge_active

\* ------------------------------------------------------------------------
\* SpecInitialize: initialize_platform with parameters at and around its
\* bounds, followed by one subscription
\* ------------------------------------------------------------------------
InitializeVolumeLimits == {0, 1, 1500000}
InitializeBasisPoints ==
    {MIN_FEE_BASIS_POINTS - 1, MIN_FEE_BASIS_POINTS, MAX_FEE_BASIS_POINTS,
     MAX_FEE_BASIS_POINTS + 1}

NextInitialize ==
    \/ Tick(HalfDay, MaxElapsed)
    \/ \E c \in {Admin, Outsider}, v \in InitializeVolumeLimits,
          bp \in InitializeBasisPoints : InitializePlatform(c, v, bp)
    \/ \E m \in MerchantOwners :
          CreateSubscription(Payer, m, 1000000, HalfDay, 1000000, 2000000, 8)
    \/ \E k \in PayerKeys : ExecutePayment(k, Outsider, FeeAccount)
    \/ \E k \in PayerKeys : CancelSubscription(k, Payer)

SpecInitialize == Init /\ [][NextInitialize]_vars

\* C17: initialize_platform is rejected when fee_basis_points < 1
\* (FeeTooLow) or > 500 (FeeTooHigh) and when daily_volume_limit = 0, so
\* that in every reachable platform state 1 <= fee_basis_points <= 500 and
\* daily_volume_limit > 0.
C17_PlatformWithinBounds ==
    platform.exists =>
        /\ platform.fee_basis_points >= 1
        /\ platform.fee_basis_points <= 500
        /\ platform.daily_volume_limit > 0

\* ------------------------------------------------------------------------
\* SpecCaller: the operations on one subscription, each called by every
\* signer
\* ------------------------------------------------------------------------
CallerVolumeLimit == 1500000
CallerLifetimeCap == 2000000

NextCaller ==
    \/ Tick(HalfDay, MaxElapsed)
    \/ InitializePlatform(Admin, CallerVolumeLimit, 100)
    \/ \E m \in MerchantOwners :
          CreateSubscription(Payer, m, 1000000, HalfDay, 1000000,
                             CallerLifetimeCap, 8)
    \/ \E k \in PayerKeys, c \in Signers : ExecutePayment(k, c, FeeAccount)
    \/ \E k \in PayerKeys, c \in Signers : PauseSubscription(k, c)
    \/ \E k \in PayerKeys, c \in Signers : ResumeSubscription(k, c)
    \/ \E k \in PayerKeys, c \in Signers : CancelSubscription(k, c)
    \/ \E k \in PayerKeys, c \in Signers : CloseSubscription(k, c)
    \/ \E k \in PayerKeys, c \in Signers, lc \in {-1, 1000000} :
          UpdateLimits(k, c, -1, lc)

SpecCaller == Init /\ [][NextCaller]_vars

\* The preconditions of execute_payment: every check of the handler passes
\* and the payer's token account holds the amount under a delegation to the
\* subscription that covers it.
ExecutePreconditions(k) ==
    /\ subs[k].exists /\ platform.exists
    /\ ExecuteChecks(subs[k], VolumeWindowReset(platform, now), now) = "Ok"
    /\ token.balance[k[1]] >= subs[k].amount
    /\ token.delegate[k[1]] = k
    /\ token.delegated_amount[k[1]] >= subs[k].amount

\* C18: pause_subscription, resume_subscription, cancel_subscription,
\* close_subscription and update_limits succeed only when the caller is the
\* subscription's payer, any other caller being rejected with
\* UnauthorizedUser and nothing changed; execute_payment succeeds for every
\* caller whenever its preconditions hold, and its result and the accounts
\* after it are those the handler computes from the accounts and the clock
\* alone.
C18_CallerIdentity ==
    [][\A k \in SubKeys :
          /\ ( /\ last'.op \in {"pause_subscription", "resume_subscription",
                                "cancel_subscription", "close_subscription",
                                "update_limits"}
               /\ last'.sub = k /\ subs[k].exists ) =>
                /\ last'.err = "Ok" => last'.caller = subs[k].user
                /\ last'.caller # subs[k].user =>
                      /\ last'.err = "UnauthorizedUser"
                      /\ UNCHANGED billingVars
          /\ ( last'.op = "execute_payment" /\ last'.sub = k ) =>
                LET r == execute_payment(subs[k], platform, token, FeeAccount,
                                         now)
                IN /\ ExecutePreconditions(k) => last'.err = "Ok"
                   /\ last'.err = r.err
                   /\ IF r.err = "Ok"
                      THEN /\ subs'[k] = r.sub
                           /\ platform' = r.plat
                           /\ token' = r.tok
                      ELSE UNCHANGED billingVars]_vars

\* The merchant, who is not the payer, has executed the second payment of a
\* subscription.
C18_Witness ==
    \E k \in SubKeys :
        /\ ExecutedOk(k)
        /\ last.caller = k[2]
        /\ last.caller # subs[k].user
        /\ subs[k].payment_count = 2

\* ------------------------------------------------------------------------
\* SpecAdmin: the administrative operations of both programs, each called
\* by the platform authority, by another candidate for registry authority
\* and by an outsider; the two authorities may be different identities
\* ------------------------------------------------------------------------
AdminVolumeLimit == 1500000
AdminLifetimeCap == 2000000
Authorities == {Admin, "u2"}
AdminCallers == Authorities \cup {Outsider}

NextAdmin ==
    \/ Tick(HalfDay, MaxElapsed)
    \/ InitializePlatform(Admin, AdminVolumeLimit, 100)
    \/ \E c \in Authorities : InitializeRegistry(c)
    \/ \E o \in MerchantOwners : ApplyForVerification(o)
    \/ \E o \in MerchantOwners : SubscribePremiumBadge(o, RegistryFeeAccount)
    \/ \E m \in MerchantOwners :
          CreateSubscription(Payer, m, 1000000, HalfDay, 1000000,
                             AdminLifetimeCap, 8)
    \/ \E k \in PayerKeys : ExecutePayment(k, Outsider, FeeAccount)
    \/ \E c \in AdminCallers : EmergencyPause(c)
    \/ \E c \in AdminCallers : EmergencyUnpause(c)
    \/ \E o \in MerchantOwners, c \in AdminCallers,
          t \in {"Verified", "Suspended"} :
          /\ registry.verified_merchants < MaxVerifications
          /\ ApproveMerchant(o, c, t)
    \/ \E o \in MerchantOwners, c \in AdminCallers : SuspendMerchant(o, c, 10)

SpecAdmin == Init /\ [][NextAdmin]_vars

\* C19: emergency_pause and emergency_unpause succeed only for the platform
\* authority, approve_merchant and suspend_merchant only for the registry
\* authority; a call by any other identity is rejected with
\* UnauthorizedAdmin and leaves emergency_pause, the volume counters, the
\* merchant's tier and badge (every account) unchanged.
C19_AdminOnly ==
    [][/\ ( last'.op \in {"emergency_pause", "emergency_unpause"}
            /\ platform.exists ) =>
             /\ last'.err = "Ok" => last'.caller = platform.authority
             /\ last'.caller # platform.authority =>
                   /\ last'.err = "UnauthorizedAdmin"
                   /\ UNCHANGED <<billingVars, registryVars>>
       /\ \A o \in MerchantOwners :
             ( /\ last'.op \in {"approve_merchant", "suspend_merchant"}
               /\ last'.merchant = o
               /\ merchants[o].exists /\ registry.exists ) =>
                /\ last'.err = "Ok" => last'.caller = registry.authority
                /\ last'.caller # registry.authority =>
                      /\ last'.err = "UnauthorizedAdmin"
                      /\ UNCHANGED <<billingVars, registryVars>>]_vars

\* The platform authority, who is not the registry authority, has been
\* refused the suspension of a Verified merchant holding a premium badge,
\* while the platform is paused with a non-zero 24-hour volume.
C19_Witness ==
    \E o \in MerchantOwners :
        /\ last.op = "suspend_merchant" /\ last.err = "UnauthorizedAdmin"
        /\ last.merchant = o
        /\ last.caller = platform.authority
        /\ last.caller # registry.authority
        /\ platform.emergency_pause /\ platform.total_volume_24h > 0
        /\ merchants[o].verification_tier = "Verified"
        /\ merchants[o].premium_badge_active

\* ------------------------------------------------------------------------
\* SpecCap: one subscription created and updated with amounts and
\* per-transaction caps on both sides of each other
\* ------------------------------------------------------------------------
CapVolumeLimit == 5000000
CapLifetimeCap == 3000000
CapAmounts == {1000000, 1500001}
CapMaxTx == {1000000, 1500000}
CapNewMaxTx == {-1, 999999, 1000000, 3000000}

NextCap ==
    \/ Tick(HalfDay, MaxElapsed)
    \/ InitializePlatform(Admin, CapVolumeLimit, 100)
    \/ \E m \in MerchantOwners, a \in CapAmounts, mx \in CapMaxTx :
          CreateSubscription(Payer, m, a, HalfDay, mx, CapLifetimeCap, 8)
    \/ \E k \in PayerKeys : ExecutePayment(k, Outsider, FeeAccount)
    \/ \E k \in PayerKeys : PauseSubscription(k, Payer)
    \/ \E k \in PayerKeys : ResumeSubscription(k, Payer)
    \/ \E k \in PayerKeys : CancelSubscription(k, Payer)
    \/ \E k \in PayerKeys : CloseSubscription(k, Payer)
    \/ \E k \in PayerKeys, mx \in CapNewMaxTx : UpdateLimits(k, Payer, mx, -1)

SpecCap == Init /\ [][NextCap]_vars

\* C20: in every reachable state every subscription (active or not) has
\* amount <= max_per_transaction, established by create_subscription and
\* preserved by update_limits, so every executed payment, which does not
\* check the cap again, charges at most max_per_transaction.
C20_PerTransactionCap ==
    [][\A k \in SubKeys :
          /\ subs'[k].exists => subs'[k].amount <= subs'[k].max_per_transaction
          /\ ( last'.op = "execute_payment" /\ last'.err = "Ok"
               /\ last'.sub = k ) =>
                /\ subs'[k].total_paid - subs[k].total_paid
                      <= subs[k].max_per_transaction
                /\ token.balance[k[1]] - token'.balance[k[1]]
                      <= subs[k].max_per_transaction]_vars

\* A payment has been executed after update_limits changed the
\* per-transaction cap (no subscription is created with a cap of 3,000,000).
C20_Witness ==
    \E k \in SubKeys :
        /\ ExecutedOk(k)
        /\ subs[k].max_per_transaction = 3000000
        /\ subs[k].amount = 1000000

\* ------------------------------------------------------------------------
\* SpecLimits: one subscription whose limits are updated to values on both
\* sides of amount and total_paid, in every state of its lifecycle
\* ------------------------------------------------------------------------
LimitsVolumeLimit == 5000000
LimitsAmount == 1000000
LimitsLifetimeCap == 2000000
LimitsNewMaxTx == {-1, LimitsAmount - 1, LimitsAmount + 500000}
LimitsNewCaps ==
    {-1, LimitsAmount - 500000, LimitsAmount, LimitsLifetimeCap,
     LimitsLifetimeCap + 1000000}

NextLimits ==
    \/ Tick(HalfDay, MaxElapsed)
    \/ InitializePlatform(Admin, LimitsVolumeLimit, 100)
    \/ \E m \in MerchantOwners :
          CreateSubscription(Payer, m, LimitsAmount, HalfDay, LimitsAmount,
                             LimitsLifetimeCap, 8)
    \/ \E k \in PayerKeys : ExecutePayment(k, Outsider, FeeAccount)
    \/ \E k \in PayerKeys : PauseSubscription(k, Payer)
    \/ \E k \in PayerKeys : ResumeSubscription(k, Payer)
    \/ \E k \in PayerKeys : CancelSubscription(k, Payer)
    \/ \E k \in PayerKeys, mx \in LimitsNewMaxTx, lc \in LimitsNewCaps :
          UpdateLimits(k, Payer, mx, lc)

SpecLimits == Init /\ [][NextLimits]_vars

\* C21: in every reachable state every active subscription has
\* amount <= lifetime_cap, also after a successful update_limits that
\* changes lifetime_cap.
C21_AmountWithinLifetimeCap ==
    \A k \in SubKeys :
        ( subs[k].exists /\ subs[k].is_active )
           => subs[k].amount <= subs[k].lifetime_cap

\* ------------------------------------------------------------------------
\* Properties of the payment schedule (Spec)
\* ------------------------------------------------------------------------
\* C22: the clock never moving backward, next_payment of a subscription
\* record never moves backward: every step (execute_payment,
\* resume_subscription, pause_subscription, cancel_subscription,
\* update_limits, failed or not) leaves next_payment of a record that
\* exists before and after it equal to or greater than its previous value.
C22_NextPaymentForward ==
    [][/\ now' >= now
       /\ \A k \in SubKeys :
             ( subs[k].exists /\ subs'[k].exists )
                => subs'[k].next_payment >= subs[k].next_payment]_vars

\* A subscription has been resumed later than it was due: next_payment has
\* moved from created_at + frequency_seconds to now + frequency_seconds.
C22_Witness ==
    \E k \in SubKeys :
        /\ last.op = "resume_subscription" /\ last.err = "Ok" /\ last.sub = k
        /\ subs[k].payment_count = 0
        /\ subs[k].next_payment = now + subs[k].frequency_seconds
        /\ now >= subs[k].created_at + subs[k].frequency_seconds

\* C23: cancel_subscription by the payer on an active subscription, paused
\* or not, succeeds; it revokes the delegation on the payer's token
\* account, sets is_active = FALSE and is_paused = FALSE, decrements
\* total_subscriptions by one (saturating at 0), and leaves every other
\* field of the subscription (total_paid, payment_count, next_payment, the
\* caps), the rest of the platform state and the balances unchanged; no
\* execute_payment on a cancelled subscription succeeds or moves funds.
C23_CancelEffect ==
    [][\A k \in SubKeys :
          /\ ( /\ last'.op = "cancel_subscription" /\ last'.sub = k
               /\ subs[k].exists /\ subs[k].is_active
               /\ last'.caller = subs[k].user ) =>
                /\ last'.err = "Ok"
                /\ token'.delegate[k[1]] = NoDelegate
                /\ token'.delegated_amount[k[1]] = 0
                /\ token'.balance = token.balance
                /\ subs'[k] = [subs[k] EXCEPT !.is_active = FALSE,
                                              !.is_paused = FALSE]
                /\ platform' =
                      [platform EXCEPT !.total_subscriptions =
                          IF platform.total_subscriptions = 0 THEN 0
                          ELSE platform.total_subscriptions - 1]
          /\ ( /\ last'.op = "execute_payment" /\ last'.sub = k
               /\ subs[k].exists /\ ~subs[k].is_active ) =>
                /\ last'.err # "Ok"
                /\ UNCHANGED billingVars]_vars

\* A subscription that had been charged once, with part of its lifetime cap
\* not yet paid, has been cancelled and holds no delegation.
C23_Witness ==
    \E k \in SubKeys :
        /\ last.op = "cancel_subscription" /\ last.err = "Ok" /\ last.sub = k
        /\ subs[k].payment_count = 1
        /\ subs[k].total_paid < subs[k].lifetime_cap
        /\ ~subs[k].is_active /\ ~subs[k].is_paused
        /\ token.delegate[k[1]] = NoDelegate

\* ------------------------------------------------------------------------
\* SpecOrder: execute_payment with several of its preconditions violated at
\* once.  As in SpecVariance the initial states are those after
\* create_subscription and zero or one payment with the amount field of the
\* account rewritten (no instruction writes amount), without which the
\* price-variance check never fails; the daily volume limit equals the
\* original amount, so the larger amounts also exceed the velocity limit.
\* ------------------------------------------------------------------------
OrderVolumeLimit == 1000000
OrderLifetimeCap == 2000000

OrderCreated ==
    create_subscription(NoSub,
        initialize_platform(NoPlatform, Admin, OrderVolumeLimit, 100,
                            StartTime).plat,
        InitToken, Payer, "m1", 1000000, HalfDay, 2000000, OrderLifetimeCap,
        8, StartTime)

OrderPaid ==
    execute_payment(OrderCreated.sub, OrderCreated.plat, OrderCreated.tok,
                    FeeAccount, StartTime + HalfDay)

InitOrder ==
    \E paid \in BOOLEAN, a \in VarianceAmounts :
        LET s == IF paid THEN OrderPaid ELSE OrderCreated
        IN /\ now = StartTime + HalfDay
           /\ platform = s.plat
           /\ subs = [k \in SubKeys |->
                        IF k = VarianceKey
                        THEN [s.sub EXCEPT !.amount = a] ELSE NoSub]
           /\ token = s.tok
           /\ registry = NoRegistry
           /\ merchants = [o \in MerchantOwners |-> NoMerchant]
           /\ reviews = [k \in MerchantOwners \X Users |-> NoReview]
           /\ last = Result("deploy", "Ok", "", NoKey, "")
           /\ calc = NoCalc

NextOrder ==
    \/ Tick(HalfDay, MaxElapsed)
    \/ ExecutePayment(VarianceKey, Outsider, FeeAccount)
    \/ PauseSubscription(VarianceKey, Payer)
    \/ ResumeSubscription(VarianceKey, Payer)
    \/ CancelSubscription(VarianceKey, Payer)
    \/ \E lc \in {1000000, 3000000} : UpdateLimits(VarianceKey, Payer, -1, lc)
    \/ EmergencyPause(Admin)
    \/ EmergencyUnpause(Admin)

SpecOrder == InitOrder /\ [][NextOrder]_vars

\* The earliest violated precondition of execute_payment in the order
\* global pause, active, not paused, due, lifetime cap, daily velocity after
\* the window reset, price variance; "none" when all seven hold.
FirstViolated(sub, plat, t) ==
    IF plat.emergency_pause THEN "SystemPaused"
    ELSE IF ~sub.is_active THEN "SubscriptionInactive"
    ELSE IF sub.is_paused THEN "SubscriptionPaused"
    ELSE IF t < sub.next_payment THEN "PaymentNotDue"
    ELSE IF sub.total_paid + sub.amount > sub.lifetime_cap
    THEN "ExceedsLifetimeCap"
    ELSE IF (IF t >= plat.last_volume_reset + SECONDS_PER_DAY
             THEN 0 ELSE plat.total_volume_24h) + sub.amount
               > plat.daily_volume_limit
    THEN "VelocityExceeded"
    ELSE IF sub.payment_count > 0 /\ OutOfBand(sub)
    THEN "PriceVarianceExceeded"
    ELSE "none"

\* C24: execute_payment evaluates its preconditions in the order global
\* pause (SystemPaused), active (SubscriptionInactive), not paused
\* (SubscriptionPaused), due (PaymentNotDue), lifetime cap
\* (ExceedsLifetimeCap), daily velocity after the window reset
\* (VelocityExceeded), price variance (PriceVarianceExceeded): the error
\* returned is that of the earliest violated one, and none of these errors
\* is returned when all seven hold.
C24_PreconditionOrder ==
    [][\A k \in SubKeys :
          ( /\ last'.op = "execute_payment" /\ last'.sub = k
            /\ subs[k].exists /\ platform.exists ) =>
             LET first == FirstViolated(subs[k], platform, now)
             IN IF first # "none"
                THEN last'.err = first
                ELSE last'.err \notin
                        {"SystemPaused", "SubscriptionInactive",
                         "SubscriptionPaused", "PaymentNotDue",
                         "ExceedsLifetimeCap", "VelocityExceeded",
                         "PriceVarianceExceeded"}]_vars

\* A second payment that exceeds the lifetime cap, the velocity limit and
\* the price variance at once has been refused with ExceedsLifetimeCap.
C24_Witness ==
    /\ last.op = "execute_payment" /\ last.err = "ExceedsLifetimeCap"
    /\ subs[VarianceKey].payment_count = 1
    /\ subs[VarianceKey].amount > platform.daily_volume_limit
    /\ OutOfBand(subs[VarianceKey])

C26_UpdateLimitsOnlyUnpaused ==
    [][\A k \in SubKeys :
          ( /\ last'.op = "update_limits" /\ last'.sub = k
            /\ subs[k].exists
            /\ (~subs[k].is_active \/ subs[k].is_paused) ) =>
             /\ last'.err # "Ok"
             /\ subs'[k].max_per_transaction = subs[k].max_per_transaction
             /\ subs'[k].lifetime_cap = subs[k].lifetime_cap]_vars

\* C27: pause_subscription by the payer on an active, unpaused subscription
\* sets is_paused and leaves next_payment and every other field unchanged,
\* and on a paused one fails with AlreadyPaused; resume_subscription by the
\* payer on an active, paused subscription clears is_paused and sets
\* next_payment = now + frequency_seconds, and on an unpaused one fails with
\* NotPaused; both fail on a cancelled subscription; a failing call changes
\* nothing; and a payment executes only at or after next_payment, so not
\* before a full interval has elapsed since a resume.
C27_PauseResumeEffect ==
    [][\A k \in SubKeys :
          LET s == subs[k]
              byPayer(op) == /\ last'.op = op /\ last'.sub = k
                             /\ s.exists /\ last'.caller = s.user
          IN /\ byPayer("pause_subscription") =>
                  /\ UNCHANGED <<now, platform, token>>
                  /\ IF s.is_active /\ ~s.is_paused
                     THEN /\ last'.err = "Ok"
                          /\ subs' = [subs EXCEPT ![k].is_paused = TRUE]
                     ELSE /\ subs' = subs
                          /\ last'.err # "Ok"
                          /\ s.is_active => last'.err = "AlreadyPaused"
             /\ byPayer("resume_subscription") =>
                  /\ UNCHANGED <<now, platform, token>>
                  /\ IF s.is_active /\ s.is_paused
                     THEN /\ last'.err = "Ok"
                          /\ subs' = [subs EXCEPT
                                        ![k].is_paused = FALSE,
                                        ![k].next_payment =
                                            now + s.frequency_seconds]
                     ELSE /\ subs' = subs
                          /\ last'.err # "Ok"
                          /\ s.is_active => last'.err = "NotPaused"
             /\ ( /\ last'.op = "execute_payment" /\ last'.sub = k
                  /\ last'.err = "Ok" ) => now >= s.next_payment]_vars

\* A subscription that missed two cycles while paused has been resumed: its
\* next payment is one full interval after the resume.
C27_Witness ==
    \E k \in SubKeys :
        /\ last.op = "resume_subscription" /\ last.err = "Ok" /\ last.sub = k
        /\ ~subs[k].is_paused
        /\ now >= subs[k].created_at + 2 * subs[k].frequency_seconds
        /\ subs[k].payment_count = 0
        /\ subs[k].next_payment = now + subs[k].frequency_seconds

\* ------------------------------------------------------------------------
\* SpecTier: reports on a merchant of any tier whose counters stand near the
\* thresholds of the automatic rules
\* ------------------------------------------------------------------------
TierSuccesses == {0, 99, 100, 110}
TierFailures == {0, 3, 4, 5, 44}
TierMaxSuccesses == 112
TierMaxFailures == 46

\* The merchant record after s successful and f failed reports of
\* ReportAmount and no review, standing in the given tier.
AfterReports(tier, s, f) ==
    [ScenarioApplied.m EXCEPT !.verification_tier = tier,
                              !.total_transactions = s,
                              !.total_volume = s * ReportAmount,
                              !.failed_transactions = f,
                              !.community_score = (10 * s) - (25 * f)]

\* Every tier is reached with these counters: Unverified by reports on an
\* applicant, Verified and Suspended by approve_merchant and suspend_merchant
\* at any time, Community by the hundredth successful report on a Verified
\* merchant before its failures (at least 100 successes).
InitTier ==
    \E tier \in Tiers, s \in TierSuccesses, f \in TierFailures :
        /\ tier = "Community" => s >= 100
        /\ now = StartTime
        /\ platform = NoPlatform
        /\ subs = [k \in SubKeys |-> NoSub]
        /\ token = InitToken
        /\ registry = IF tier = "Unverified" THEN ScenarioApplied.reg
                      ELSE ScenarioVerified.reg
        /\ merchants = [o \in MerchantOwners |->
                          IF o = "m1" THEN AfterReports(tier, s, f)
                          ELSE NoMerchant]
        /\ reviews = [k \in MerchantOwners \X Users |-> NoReview]
        /\ last = Result("deploy", "Ok", "", NoKey, "")
        /\ calc = NoCalc

NextTier ==
    \E i \in {0, 1}, ok \in BOOLEAN :
        /\ merchants["m1"].total_transactions < TierMaxSuccesses
        /\ merchants["m1"].failed_transactions < TierMaxFailures
        /\ RecordTransaction("m1", Outsider, i, RecurringProgram,
                             ReportAmount, ok)

SpecTier == InitTier /\ [][NextTier]_vars

\* C28: the tier after an accepted record_transaction is a function of the
\* updated record: Suspended if the updated community_score < -100,
\* whatever the other counters and the prior tier; otherwise Community if
\* the prior tier is Verified and the updated total_transactions >= 100,
\* community_score >= 1000 and failed_transactions < 5; otherwise the prior
\* tier (an Unverified or Suspended merchant is never promoted).
C28_TierAfterReport ==
    [][\A o \in MerchantOwners :
          ( /\ last'.op = "record_transaction" /\ last'.err = "Ok"
            /\ last'.merchant = o ) =>
             LET prior == merchants[o].verification_tier
                 m == merchants'[o]
             IN m.verification_tier =
                  IF m.community_score < -100 THEN "Suspended"
                  ELSE IF /\ prior = "Verified"
                          /\ m.total_transactions >= 100
                          /\ m.community_score >= 1000
                          /\ m.failed_transactions < 5
                  THEN "Community"
                  ELSE prior]_vars

\* A merchant with a hundred successful reports stands Suspended after a
\* failed report has taken its score below -100.
C28_Witness ==
    /\ last.op = "record_transaction" /\ last.err = "Ok"
    /\ merchants["m1"].total_transactions >= 100
    /\ merchants["m1"].community_score < -100
    /\ merchants["m1"].community_score >= -125
    /\ merchants["m1"].verification_tier = "Suspended"

\* ------------------------------------------------------------------------
\* SpecCounters: reports on a merchant whose counters stand at either end
\* of their ranges
\* ------------------------------------------------------------------------
CounterReports == 2
CounterAmounts == {0, ReportAmount}
CounterScores ==
    {I32_MIN, I32_MIN + 10, I32_MIN + 25, 0, I32_MAX - 10, I32_MAX - 9,
     I32_MAX}

\* community_score is moved by reports (+10, -25) and by the reviews of any
\* number of reviewers (+20 .. -30), total_volume by amounts of any size, so
\* the counters take these values independently of each other.
InitCounters ==
    \E tx \in {0, U64_MAX - 1, U64_MAX},
       vol \in {0, U64_MAX - ReportAmount, (U64_MAX - ReportAmount) + 1},
       failed \in {0, U32_MAX - 1, U32_MAX},
       score \in CounterScores :
        /\ now = StartTime
        /\ platform = NoPlatform
        /\ subs = [k \in SubKeys |-> NoSub]
        /\ token = InitToken
        /\ registry = ScenarioVerified.reg
        /\ merchants = [o \in MerchantOwners |->
                          IF o = "m1"
                          THEN [ScenarioVerified.m EXCEPT
                                   !.total_transactions = tx,
                                   !.total_volume = vol,
                                   !.failed_transactions = failed,
                                   !.community_score = score]
                          ELSE NoMerchant]
        /\ reviews = [k \in MerchantOwners \X Users |-> NoReview]
        /\ last = Result("deploy", "Ok", "", NoKey, "")
        /\ calc = NoCalc

NextCounters ==
    \E amount \in CounterAmounts, ok \in BOOLEAN :
        /\ \/ merchants["m1"].total_transactions < CounterReports
           \/ merchants["m1"].total_transactions >= U64_MAX - 1
        /\ \/ merchants["m1"].failed_transactions < CounterReports
           \/ merchants["m1"].failed_transactions >= U32_MAX - 1
        /\ RecordTransaction("m1", Outsider, 1, RecurringProgram, amount, ok)

SpecCounters == InitCounters /\ [][NextCounters]_vars

\* C29: a successful report adds 10 to community_score, 1 to
\* total_transactions and amount to total_volume and leaves
\* failed_transactions unchanged, and is aborted with Overflow, changing
\* nothing, when one of the three additions overflows; a failed report adds
\* 1 to failed_transactions (aborting with Overflow when that overflows),
\* subtracts 25 from community_score stopping at the integer minimum,
\* without ever aborting for the score, and leaves total_transactions and
\* total_volume unchanged.
C29_CounterEffects ==
    [][\A amount \in CounterAmounts, ok \in BOOLEAN :
          RecordTransaction("m1", Outsider, 1, RecurringProgram, amount, ok)
            => LET m == merchants["m1"]
                   n == merchants'["m1"]
               IN IF ok
                  THEN IF \/ m.community_score > I32_MAX - 10
                          \/ m.total_transactions > U64_MAX - 1
                          \/ m.total_volume > U64_MAX - amount
                       THEN /\ last'.err = "Overflow"
                            /\ merchants' = merchants
                       ELSE /\ last'.err = "Ok"
                            /\ n.community_score = m.community_score + 10
                            /\ n.total_transactions = m.total_transactions + 1
                            /\ n.total_volume = m.total_volume + amount
                            /\ n.failed_transactions = m.failed_transactions
                  ELSE IF m.failed_transactions > U32_MAX - 1
                       THEN /\ last'.err = "Overflow"
                            /\ merchants' = merchants
                       ELSE /\ last'.err = "Ok"
                            /\ n.failed_transactions =
                                   m.failed_transactions + 1
                            /\ n.community_score =
                                   IF m.community_score < I32_MIN + 25
                                   THEN I32_MIN
                                   ELSE m.community_score - 25
                            /\ n.total_transactions = m.total_transactions
                            /\ n.total_volume = m.total_volume]_vars

\* A failed report has been accepted with the score at the integer minimum.
C29_Witness ==
    /\ last.op = "record_transaction" /\ last.err = "Ok"
    /\ merchants["m1"].community_score = I32_MIN
    /\ merchants["m1"].failed_transactions >= 1

\* ------------------------------------------------------------------------
\* SpecRating: reviews of every rating and comment length, by a qualifying
\* subscriber and by a user without subscription, on a merchant whose score
\* stands anywhere in its range
\* ------------------------------------------------------------------------
Ratings == 0..6
CommentLengths ==
    {0, 1, MAX_REVIEW_COMMENT_LEN, MAX_REVIEW_COMMENT_LEN + 1}
RatingScores ==
    {I32_MIN, I32_MIN + 15, I32_MIN + 29, -90, 0, I32_MAX - 20,
     I32_MAX - 10, I32_MAX - 9, I32_MAX}

\* Seven days after create_subscription at StartTime, after three payments;
\* the merchant is Verified, with three successful reports and one failed
\* one, and a score moved by reports and earlier reviews.
InitRating ==
    \E score \in RatingScores :
        /\ now = StartTime + MIN_SUBSCRIPTION_AGE_SECONDS
        /\ platform = ReviewerSubscribed.plat
        /\ subs = [k \in SubKeys |->
                     IF k = <<Payer, "m1">> THEN ReviewerSubscribed.sub
                     ELSE NoSub]
        /\ token = ReviewerSubscribed.tok
        /\ registry = ScenarioVerified.reg
        /\ merchants = [o \in MerchantOwners |->
                          IF o = "m1"
                          THEN [AfterReports("Verified", 3, 1) EXCEPT
                                   !.community_score = score]
                          ELSE NoMerchant]
        /\ reviews = [k \in MerchantOwners \X Users |-> NoReview]
        /\ last = Result("tick", "Ok", "", NoKey, "")
        /\ calc = NoCalc

NextRating ==
    \E reviewer \in Users, rating \in Ratings, n \in CommentLengths :
        SubmitReview("m1", reviewer, rating, n)

SpecRating == InitRating /\ [][NextRating]_vars

\* C30: an accepted submit_review with rating r changes community_score by
\* +20 (r = 5), +10 (r = 4), 0 (r = 3), -15 (r = 2), -30 (r = 1), stopping at
\* the integer minimum for the negative deltas, and changes no other field
\* of the merchant; a positive delta that overflows aborts the review with
\* Overflow, a negative one never aborts it; a rating outside 1..5 or a
\* comment that is empty or longer than 256 bytes is rejected with nothing
\* changed, with InvalidRating or else InvalidComment when the accounts of
\* the call are valid.
C30_ReviewScoreEffect ==
    [][\A reviewer \in Users, rating \in Ratings, n \in CommentLengths :
          SubmitReview("m1", reviewer, rating, n) =>
             LET m == merchants["m1"]
                 accounts == /\ ~reviews[<<"m1", reviewer>>].exists
                             /\ ReviewSubscriptionCheck(
                                    subs[<<reviewer, "m1">>]) = "Ok"
                 badRating == rating < 1 \/ rating > 5
                 badComment == n = 0 \/ n > 256
                 delta == CASE rating = 5 -> 20 [] rating = 4 -> 10
                            [] rating = 3 -> 0 [] rating = 2 -> -15
                            [] rating = 1 -> -30 [] OTHER -> 0
             IN IF badRating \/ badComment
                THEN /\ last'.err # "Ok"
                     /\ UNCHANGED <<merchants, reviews>>
                     /\ accounts =>
                          last'.err = IF badRating THEN "InvalidRating"
                                      ELSE "InvalidComment"
                ELSE IF ~(accounts /\ OldEnough(subs[<<reviewer, "m1">>], now))
                THEN /\ last'.err # "Ok"
                     /\ UNCHANGED <<merchants, reviews>>
                ELSE IF delta > 0 /\ m.community_score > I32_MAX - delta
                THEN /\ last'.err = "Overflow"
                     /\ UNCHANGED <<merchants, reviews>>
                ELSE /\ last'.err = "Ok"
                     /\ merchants' =
                          [merchants EXCEPT !["m1"].community_score =
                             IF delta < 0
                                /\ m.community_score < I32_MIN - delta
                             THEN I32_MIN
                             ELSE m.community_score + delta]]_vars

\* A one-star review has been accepted with the score stopping at the
\* integer minimum.
C30_Witness ==
    /\ last.op = "submit_review" /\ last.err = "Ok"
    /\ reviews[<<"m1", Payer>>].exists
    /\ reviews[<<"m1", Payer>>].rating = 1
    /\ merchants["m1"].community_score = I32_MIN

\* ------------------------------------------------------------------------
\* SpecPremium: the premium badge bought by merchants of every tier, with
\* the fee account the caller names
\* ------------------------------------------------------------------------
PremiumElapsedDays == 45

NextPremium ==
    \/ Tick(15 * SECONDS_PER_DAY, PremiumElapsedDays * SECONDS_PER_DAY)
    \/ InitializeRegistry(Admin)
    \/ \E o \in MerchantOwners : ApplyForVerification(o)
    \/ \E o \in MerchantOwners, t \in Tiers :
          /\ registry.verified_merchants < MaxVerifications
          /\ ApproveMerchant(o, Admin, t)
    \/ \E o \in MerchantOwners : SuspendMerchant(o, Admin, 10)
    \/ \E o \in MerchantOwners :
          \E f \in {RegistryFeeAccount, o} : SubscribePremiumBadge(o, f)

SpecPremium == Init /\ [][NextPremium]_vars

\* C31: subscribe_premium_badge succeeds only for a Verified or Community
\* merchant; an Unverified or Suspended one is rejected with
\* MustBeVerifiedFirst, badge fields unchanged and nothing transferred; on
\* success the badge price is transferred to the registry (its fee account
\* grows by the price, the merchant's account shrinks by it) and
\* premium_badge_active = TRUE with premium_badge_expires = now + 30 days
\* (2,592,000 seconds).
C31_PremiumBadge ==
    [][\A o \in MerchantOwners :
          ( /\ last'.op = "subscribe_premium_badge" /\ last'.merchant = o
            /\ merchants[o].exists /\ registry.exists ) =>
             IF merchants[o].verification_tier \in {"Verified", "Community"}
             THEN last'.err = "Ok" =>
                    /\ token'.balance[RegistryFeeAccount] =
                          token.balance[RegistryFeeAccount]
                             + PREMIUM_BADGE_PRICE
                    /\ token'.balance[o] =
                          token.balance[o] - PREMIUM_BADGE_PRICE
                    /\ merchants'[o].premium_badge_active
                    /\ merchants'[o].premium_badge_expires = now + 2592000
             ELSE /\ last'.err = "MustBeVerifiedFirst"
                  /\ UNCHANGED <<merchants, token>>]_vars

\* ------------------------------------------------------------------------
\* SpecExpiry: successful and failed reports before, at and after the expiry
\* of a premium badge
\* ------------------------------------------------------------------------
ExpiryElapsedDays == 45
MaxExpiryFailures == 5
MaxExpirySuccesses == 2

NextExpiry ==
    \/ Tick(15 * SECONDS_PER_DAY, ExpiryElapsedDays * SECONDS_PER_DAY)
    \/ InitializeRegistry(Admin)
    \/ \E o \in MerchantOwners : ApplyForVerification(o)
    \/ \E o \in MerchantOwners, t \in {"Verified", "Suspended"} :
          /\ registry.verified_merchants < MaxVerifications
          /\ ApproveMerchant(o, Admin, t)
    \/ \E o \in MerchantOwners : SuspendMerchant(o, Admin, 10)
    \/ \E o \in MerchantOwners : SubscribePremiumBadge(o, RegistryFeeAccount)
    \/ \E o \in MerchantOwners, ok \in BOOLEAN :
          /\ merchants[o].failed_transactions < MaxExpiryFailures
          /\ merchants[o].total_transactions < MaxExpirySuccesses
          /\ RecordTransaction(o, Outsider, 1, RecurringProgram, ReportAmount,
                               ok)

SpecExpiry == Init /\ [][NextExpiry]_vars

\* C32: the expiry of the premium badge is lazy.  An active badge stays
\* active across every step that is neither an accepted record_transaction
\* nor an accepted suspend_merchant, whatever the clock; an accepted
\* record_transaction, successful or failed, with now >= premium_badge_expires
\* clears it; one with now < premium_badge_expires leaves it active unless
\* the report suspends the merchant (updated community_score < -100).
C32_LazyExpiry ==
    [][\A o \in MerchantOwners :
          ( merchants[o].exists /\ merchants[o].premium_badge_active ) =>
             IF /\ last'.op = "record_transaction" /\ last'.err = "Ok"
                /\ last'.merchant = o
             THEN IF now >= merchants[o].premium_badge_expires
                  THEN ~merchants'[o].premium_badge_active
                  ELSE merchants'[o].community_score >= -100
                          => merchants'[o].premium_badge_active
             ELSE IF /\ last'.op = "suspend_merchant" /\ last'.err = "Ok"
                     /\ last'.merchant = o
             THEN TRUE
             ELSE merchants'[o].premium_badge_active]_vars

\* The first report on a Verified merchant, a successful one recorded at the
\* instant its badge expires, has cleared the badge.
C32_Witness ==
    /\ last.op = "record_transaction" /\ last.err = "Ok"
    /\ merchants["m1"].verification_tier = "Verified"
    /\ merchants["m1"].total_transactions = 1
    /\ merchants["m1"].failed_transactions = 0
    /\ merchants["m1"].premium_badge_expires = now
    /\ ~merchants["m1"].premium_badge_active

\* ------------------------------------------------------------------------
\* SpecVelocity: two payers paying the same merchant within and across
\* volume windows
\* ------------------------------------------------------------------------
VelocityElapsedDays == 2
VelocityAmount == 1000000
VelocityLifetimeCap == 3000000
VelocityVolumeLimits == {VelocityAmount + 500000, 2 * VelocityAmount}

NextVelocity ==
    \/ Tick(HalfDay, VelocityElapsedDays * SECONDS_PER_DAY)
    \/ \E limit \in VelocityVolumeLimits :
          InitializePlatform(Admin, limit, 100)
    \/ \E u \in Users :
          CreateSubscription(u, "m1", VelocityAmount, HalfDay, VelocityAmount,
                             VelocityLifetimeCap, 8)
    \/ \E k \in SubKeys : ExecutePayment(k, Outsider, FeeAccount)
    \/ EmergencyPause(Admin)
    \/ EmergencyUnpause(Admin)

SpecVelocity == Init /\ [][NextVelocity]_vars

\* C33: total_volume_24h <= daily_volume_limit in every reachable state; a
\* successful execute_payment at now >= last_volume_reset + 86,400 leaves
\* total_volume_24h = amount and last_volume_reset = now, and one at
\* now < last_volume_reset + 86,400 adds amount to total_volume_24h and
\* leaves last_volume_reset unchanged; an execution that would take the
\* (possibly reset) volume above daily_volume_limit fails, with
\* VelocityExceeded when the checks before it pass, and changes nothing.
C33_DailyVelocity ==
    [][/\ platform.exists =>
            platform.total_volume_24h <= platform.daily_volume_limit
       /\ platform'.exists =>
            platform'.total_volume_24h <= platform'.daily_volume_limit
       /\ \A k \in SubKeys :
            ( /\ last'.op = "execute_payment" /\ last'.sub = k
              /\ subs[k].exists /\ platform.exists ) =>
               LET s == subs[k]
                   over == now >= platform.last_volume_reset + 86400
                   base == IF over THEN 0 ELSE platform.total_volume_24h
               IN IF base + s.amount > platform.daily_volume_limit
                  THEN /\ last'.err # "Ok"
                       /\ UNCHANGED <<platform, subs, token>>
                       /\ ( /\ ~platform.emergency_pause
                            /\ s.is_active /\ ~s.is_paused
                            /\ now >= s.next_payment
                            /\ s.total_paid + s.amount <= s.lifetime_cap )
                             => last'.err = "VelocityExceeded"
                  ELSE last'.err = "Ok" =>
                         /\ platform'.total_volume_24h = base + s.amount
                         /\ platform'.last_volume_reset =
                               IF over THEN now
                               ELSE platform.last_volume_reset]_vars

\* The second payment of a window has been refused for the velocity limit,
\* after the window of the first one was opened by a reset.
C33_Witness ==
    /\ last.op = "execute_payment" /\ last.err = "VelocityExceeded"
    /\ platform.total_volume_24h = VelocityAmount
    /\ platform.last_volume_reset > StartTime
    /\ now < platform.last_volume_reset + SECONDS_PER_DAY

\* C34: emergency_unpause by the authority clears emergency_pause and sets
\* total_volume_24h = 0, last_volume_reset = now and failed_tx_count = 0,
\* whether or not the platform was paused and whatever volume the window
\* held; emergency_pause by the authority sets the flag and leaves every
\* other field of the platform unchanged; neither touches a subscription
\* or a balance.
C34_PauseCounters ==
    [][( /\ last'.op \in {"emergency_pause", "emergency_unpause"}
         /\ platform.exists /\ last'.caller = platform.authority ) =>
            /\ last'.err = "Ok"
            /\ UNCHANGED <<subs, token>>
            /\ platform' =
                 IF last'.op = "emergency_pause"
                 THEN [platform EXCEPT !.emergency_pause = TRUE]
                 ELSE [platform EXCEPT !.emergency_pause = FALSE,
                                       !.total_volume_24h = 0,
                                       !.last_volume_reset = now,
                                       !.failed_tx_count = 0]]_vars

\* emergency_unpause has emptied a window that held the payments of both
\* subscriptions, made at the current instant.
C34_Witness ==
    /\ last.op = "emergency_unpause" /\ last.err = "Ok"
    /\ platform.total_volume_24h = 0
    /\ platform.last_volume_reset = now
    /\ platform.total_transactions = 2
    /\ \A k \in SubKeys : subs[k].exists /\ subs[k].last_payment = now

\* ------------------------------------------------------------------------
\* SpecSplit: payments executed by another user, who names the account
\* passed as platform_fee_account
\* ------------------------------------------------------------------------
SplitVolumeLimit == 5000000
SplitLifetimeCap == 2000000
SplitElapsedDays == 1
SplitAmounts == {INITIAL_MIN_FEE \div 2, 1000000}
SplitBasisPoints == {100, 500}
SplitCaller == "u2"
SplitFeeAccounts == {FeeAccount, SplitCaller, Payer, "m1"}

NextSplit ==
    \/ Tick(HalfDay, SplitElapsedDays * SECONDS_PER_DAY)
    \/ \E bp \in SplitBasisPoints :
          InitializePlatform(Admin, SplitVolumeLimit, bp)
    \/ \E a \in SplitAmounts :
          CreateSubscription(Payer, "m1", a, HalfDay, a, SplitLifetimeCap, 8)
    \/ \E f \in SplitFeeAccounts :
          ExecutePayment(<<Payer, "m1">>, SplitCaller, f)

SpecSplit == Init /\ [][NextSplit]_vars

\* C35: on every successful execute_payment the fee is
\* clamp(floor(amount * fee_basis_points / 10000), min_fee, max_fee), the
\* merchant's account receives amount - fee, the platform's fee account
\* receives fee, the payer is debited exactly amount and payment_count
\* increases by 1; if the clamped fee exceeds amount the execution fails
\* and nothing is transferred.
C35_PaymentSplit ==
    [][\A k \in SubKeys :
          ( /\ last'.op = "execute_payment" /\ last'.sub = k
            /\ subs[k].exists /\ platform.exists ) =>
             LET s == subs[k]
                 raw == (s.amount * platform.fee_basis_points) \div 10000
                 fee == IF raw < platform.min_fee THEN platform.min_fee
                        ELSE IF raw > platform.max_fee THEN platform.max_fee
                        ELSE raw
             IN IF fee > s.amount
                THEN /\ last'.err # "Ok"
                     /\ UNCHANGED <<token, subs, platform>>
                ELSE last'.err = "Ok" =>
                       /\ token'.balance[s.merchant] =
                             token.balance[s.merchant] + (s.amount - fee)
                       /\ token'.balance[FeeAccount] =
                             token.balance[FeeAccount] + fee
                       /\ token'.balance[s.user] =
                             token.balance[s.user] - s.amount
                       /\ subs'[k].payment_count = s.payment_count + 1]_vars

\* C36: the attempts of several callers on one due subscription being
\* serialized, the first one whose preconditions hold succeeds and moves the
\* schedule to now + frequency_seconds; every later attempt at that instant
\* fails without moving funds (with PaymentNotDue unless the platform or
\* the subscription has been paused or the subscription cancelled
\* meanwhile); and a successful execution is at least frequency_seconds
\* after the previous successful one of the subscription, in every
\* interleaving with pause, resume and update_limits.
C36_OnePaymentPerDueDate ==
    [][\A k \in SubKeys :
          ( /\ last'.op = "execute_payment" /\ last'.sub = k
            /\ subs[k].exists /\ platform.exists ) =>
             LET s == subs[k]
             IN /\ ExecutePreconditions(k) => last'.err = "Ok"
                /\ last'.err = "Ok" =>
                     /\ subs'[k].last_payment = now
                     /\ subs'[k].next_payment = now + s.frequency_seconds
                     /\ s.payment_count > 0 =>
                          now - s.last_payment >= s.frequency_seconds
                /\ ( s.payment_count > 0 /\ s.last_payment = now ) =>
                     /\ last'.err # "Ok"
                     /\ UNCHANGED <<token, subs, platform>>
                     /\ ( /\ ~platform.emergency_pause
                          /\ s.is_active /\ ~s.is_paused )
                           => last'.err = "PaymentNotDue"]_vars

\* The payer's attempt has been refused with PaymentNotDue at the instant
\* the second payment was executed.
C36_Witness ==
    \E k \in SubKeys :
        /\ last.op = "execute_payment" /\ last.err = "PaymentNotDue"
        /\ last.sub = k /\ last.caller = subs[k].user
        /\ subs[k].payment_count = 2
        /\ subs[k].last_payment = now

\* C37: in every reachable state every subscription has
\* total_paid = payment_count * amount and amount = original_amount.
C37_TotalPaidIsCountTimesAmount ==
    \A k \in SubKeys :
        subs[k].exists =>
            /\ subs[k].total_paid = subs[k].payment_count * subs[k].amount
            /\ subs[k].amount = subs[k].original_amount

\* Two payments have been executed on a subscription whose lifetime cap
\* update_limits has raised.
C37_Witness ==
    \E k \in SubKeys :
        /\ subs[k].exists /\ subs[k].payment_count = 2
        /\ subs[k].total_paid = 2 * subs[k].amount
        /\ subs[k].amount > 0
        /\ subs[k].lifetime_cap = 3000000

\* ------------------------------------------------------------------------
\* SpecCount: two payers creating, paying, cancelling, closing and creating
\* again
\* ------------------------------------------------------------------------
CountVolumeLimit == 5000000
CountLifetimeCap == 2000000
CountElapsedDays == 1

NextCount ==
    \/ Tick(HalfDay, CountElapsedDays * SECONDS_PER_DAY)
    \/ InitializePlatform(Admin, CountVolumeLimit, 100)
    \/ \E u \in Users :
          CreateSubscription(u, "m1", 1000000, HalfDay, 1000000,
                             CountLifetimeCap, 8)
    \/ \E k \in SubKeys : ExecutePayment(k, Outsider, FeeAccount)
    \/ \E k \in SubKeys : PauseSubscription(k, k[1])
    \/ \E k \in SubKeys : CancelSubscription(k, k[1])
    \/ \E k \in SubKeys : CloseSubscription(k, k[1])

SpecCount == Init /\ [][NextCount]_vars

ActiveSubscriptions == {k \in SubKeys : subs[k].exists /\ subs[k].is_active}

\* C38: in every reachable state total_subscriptions is the number of
\* existing subscriptions with is_active = TRUE (a subscription created
\* again for the same payer and merchant after close counts once);
\* total_transactions starts at 0, increases by one at each successful
\* execute_payment and is left unchanged by every other step, so it is the
\* number of successful executions so far and never decreases.
C38_PlatformCounters ==
    [][/\ platform.exists =>
            platform.total_subscriptions = Cardinality(ActiveSubscriptions)
       /\ ( ~platform.exists /\ platform'.exists ) =>
            /\ platform'.total_subscriptions = 0
            /\ platform'.total_transactions = 0
       /\ platform.exists =>
            platform'.total_transactions =
               platform.total_transactions
                 + (IF last'.op = "execute_payment" /\ last'.err = "Ok"
                    THEN 1 ELSE 0)]_vars

\* Both payers hold an active subscription, one of them created again
\* after close: the platform has counted two payments and the existing
\* subscriptions only one.
C38_Witness ==
    /\ platform.exists /\ platform.total_subscriptions = 2
    /\ platform.total_transactions = 2
    /\ \A k \in SubKeys : subs[k].exists /\ subs[k].is_active
    /\ \E k \in SubKeys : subs[k].payment_count = 0
    /\ \E k \in SubKeys : subs[k].payment_count = 1

\* ------------------------------------------------------------------------
\* SpecIndependent: one payer with two subscriptions, to the merchant m1 and
\* to the user u2 as merchant (the merchant of a subscription is any
\* address holding a token account), funded from the payer's one token
\* account
\* ------------------------------------------------------------------------
IndependentVolumeLimit == 5000000
IndependentLifetimeCap == 2000000
IndependentElapsedDays == 1
IndependentMerchants == {"m1", "u2"}
IndependentKeys == {<<Payer, m>> : m \in IndependentMerchants}

InitIndependent ==
    /\ now = StartTime
    /\ platform = NoPlatform
    /\ subs = [k \in SubKeys \cup IndependentKeys |-> NoSub]
    /\ token = InitToken
    /\ registry = NoRegistry
    /\ merchants = [o \in MerchantOwners |-> NoMerchant]
    /\ reviews = [k \in MerchantOwners \X Users |-> NoReview]
    /\ last = Result("deploy", "Ok", "", NoKey, "")
    /\ calc = NoCalc

NextIndependent ==
    \/ Tick(HalfDay, IndependentElapsedDays * SECONDS_PER_DAY)
    \/ InitializePlatform(Admin, IndependentVolumeLimit, 100)
    \/ \E m \in IndependentMerchants :
          CreateSubscription(Payer, m, 1000000, HalfDay, 1000000,
                             IndependentLifetimeCap, 8)
    \/ \E k \in IndependentKeys : ExecutePayment(k, Outsider, FeeAccount)
    \/ \E k \in IndependentKeys :
          UpdateLimits(k, Payer, -1, IndependentLifetimeCap + 1000000)
    \/ \E k \in IndependentKeys : CancelSubscription(k, Payer)

SpecIndependent == InitIndependent /\ [][NextIndependent]_vars

\* C39: the subscriptions of one payer funded from one token account are
\* independent in their delegated authorization: whatever has been created,
\* raised or cancelled for the other subscription, an execute_payment on an
\* active subscription that passes every check of the engine, with the
\* balance of the payer sufficient, succeeds.
C39_IndependentAuthorizations ==
    [][\A k \in IndependentKeys :
          ( /\ last'.op = "execute_payment" /\ last'.sub = k
            /\ subs[k].exists /\ platform.exists
            /\ ExecuteChecks(subs[k], VolumeWindowReset(platform, now), now)
                  = "Ok"
            /\ token.balance[k[1]] >= subs[k].amount )
             => last'.err = "Ok"]_vars

\* ------------------------------------------------------------------------
\* PlatformConfig::get_fee_wallet (state/platform_config.rs)
\* ------------------------------------------------------------------------
Mints == {"usdc_mint", "usd1_mint", "mint_x", "mint_y"}
Wallets == {"wallet_a", "wallet_b"}
NoWallet == ""

\* Mutant: an unsupported settlement token is given the USD1 wallet.
get_fee_wallet_DefaultUsd1(config, settlement_token, usdc_mint, usd1_mint) ==
    IF settlement_token = usdc_mint
    THEN [panicked |-> FALSE, wallet |-> config.fee_wallet_usdc]
    ELSE [panicked |-> FALSE, wallet |-> config.fee_wallet_usd1]

\* panic!("Unsupported settlement token for fee collection") returns no
\* value: panicked = TRUE.
get_fee_wallet(config, settlement_token, usdc_mint, usd1_mint) ==
    IF settlement_token = usdc_mint
    THEN [panicked |-> FALSE, wallet |-> config.fee_wallet_usdc]
    ELSE IF settlement_token = usd1_mint
    THEN [panicked |-> FALSE, wallet |-> config.fee_wallet_usd1]
    ELSE [panicked |-> TRUE, wallet |-> NoWallet]

GetFeeWallet(config, settlement_token, usdc_mint, usd1_mint) ==
    LET r == get_fee_wallet(config, settlement_token, usdc_mint, usd1_mint)
    IN /\ calc' = [called |-> TRUE, config |-> config,
                   settlement_token |-> settlement_token,
                   usdc_mint |-> usdc_mint, usd1_mint |-> usd1_mint,
                   panicked |-> r.panicked, wallet |-> r.wallet]
       /\ last' = Result("get_fee_wallet",
                         IF r.panicked THEN "Panic" ELSE "Ok", "", NoKey, "")
       /\ UNCHANGED <<now, billingVars, registryVars>>

NextWallet ==
    \E a \in Wallets, b \in Wallets, s \in Mints, c \in Mints, d \in Mints :
        GetFeeWallet([authority |-> Admin, fee_wallet_usdc |-> a,
                      fee_wallet_usd1 |-> b], s, c, d)

SpecWallet == Init /\ [][NextWallet]_vars

\* C40: get_fee_wallet(settlement_token, usdc_mint, usd1_mint) returns
\* fee_wallet_usdc when settlement_token = usdc_mint, returns
\* fee_wallet_usd1 when settlement_token = usd1_mint and differs from
\* usdc_mint, and panics for every other settlement token, returning no
\* wallet.
C40_FeeWallet ==
    calc.called =>
        IF calc.settlement_token = calc.usdc_mint
        THEN ~calc.panicked /\ calc.wallet = calc.config.fee_wallet_usdc
        ELSE IF calc.settlement_token = calc.usd1_mint
        THEN ~calc.panicked /\ calc.wallet = calc.config.fee_wallet_usd1
        ELSE calc.panicked /\ calc.wallet = NoWallet

\* The function has panicked for a settlement token that is neither mint,
\* with two different wallets configured.
C40_Witness ==
    /\ calc.called /\ last.op = "get_fee_wallet"
    /\ calc.panicked
    /\ calc.settlement_token \notin {calc.usdc_mint, calc.usd1_mint}
    /\ calc.config.fee_wallet_usdc # calc.config.fee_wallet_usd1

====
